---------------------------- MODULE Spec2Model ----------------------------
(***************************************************************************)
(* Clock Kanban: the reconciliation core of the plugin.                    *)
(*                                                                         *)
(* Text is modelled character by character: a string is a sequence of      *)
(* one-character strings, a document is one such sequence with "\n"        *)
(* separators, exactly as the vault stores it.  Line numbers are 0-based   *)
(* as in the program; -1 is "not found".                                   *)
(***************************************************************************)
EXTENDS Integers, Sequences, FiniteSets, TLC

(***************************************************************************)
(* Text primitives (String.prototype.includes / split / join / substring)  *)
(***************************************************************************)

NL == "\n"

\* JavaScript \s restricted to the characters that occur in the model
IsSpace(c) == c \in {" ", "\t"}

\* s.substring(from-1) in 1-based positions: the suffix starting at from
Suffix(s, from) == SubSeq(s, from, Len(s))

\* pat occurs in s at 1-based position p
StartsWithAt(s, p, pat) ==
    /\ p >= 1
    /\ p + Len(pat) - 1 <= Len(s)
    /\ SubSeq(s, p, p + Len(pat) - 1) = pat

\* s.includes(sub)
Includes(s, sub) == \E p \in 1..(Len(s) + 1) : StartsWithAt(s, p, sub)

\* smallest position >= from holding character c, or 0
RECURSIVE IndexOfChar(_, _, _)
IndexOfChar(s, c, from) ==
    IF from > Len(s) THEN 0
    ELSE IF s[from] = c THEN from
    ELSE IndexOfChar(s, c, from + 1)

\* content.split('\n'); n is the position of the first separator, or 0
RECURSIVE SplitAt(_, _)
SplitAt(content, n) ==
    IF n = 0 THEN << content >>
    ELSE << SubSeq(content, 1, n - 1) >>
         \o SplitAt(Suffix(content, n + 1),
                    IndexOfChar(Suffix(content, n + 1), NL, 1))

Split(content) == SplitAt(content, IndexOfChar(content, NL, 1))

\* lines.join('\n')
RECURSIVE Join(_)
Join(lines) ==
    IF Len(lines) = 0 THEN << >>
    ELSE IF Len(lines) = 1 THEN lines[1]
    ELSE lines[1] \o << NL >> \o Join(Tail(lines))

\* lines[i] for a 0-based index i
At(lines, i) == lines[i + 1]

\* the line at index i is replaced
Splice_overwrite(lines, i, line) ==
    SubSeq(lines, 1, i) \o << line >> \o SubSeq(lines, i + 2, Len(lines))

\* lines.splice(i, 0, line) for a 0-based index i
Splice(lines, i, line) ==
    SubSeq(lines, 1, i) \o << line >> \o SubSeq(lines, i + 1, Len(lines))

\* lines[i] = line for a 0-based index i
SetAt(lines, i, line) == [lines EXCEPT ![i + 1] = line]

(***************************************************************************)
(* Interval token grammar                                                  *)
(***************************************************************************)

ClockPrefix == << "[", "c", "l", "o", "c", "k", ":", ":" >>
TaskMarker == << "-", " ", "[" >>

\* position of the first character at or after p that is not whitespace
RECURSIVE SkipSpace(_, _)
SkipSpace(s, p) ==
    IF p <= Len(s) /\ IsSpace(s[p]) THEN SkipSpace(s, p + 1) ELSE p

\* (\[clock::[^\]]+\]\s*)+$ matched from position p; seen = a token matched
RECURSIVE ClockTokensFrom(_, _, _)
ClockTokensFrom(s, p, seen) ==
    IF p > Len(s) THEN seen
    ELSE IF ~StartsWithAt(s, p, ClockPrefix) THEN FALSE
    ELSE LET c == p + Len(ClockPrefix)
             e == IndexOfChar(s, "]", c)
         IN  IF e = 0 \/ e = c THEN FALSE
             ELSE ClockTokensFrom(s, SkipSpace(s, e + 1), TRUE)

\* /^\s*(\[clock::[^\]]+\]\s*)+$/.test(line)
IsClockLine(line) == ClockTokensFrom(line, SkipSpace(line, 1), FALSE)

\* the (?!--) lookahead dropped
HasDashDash_never(s, from, to) == FALSE

\* there is a "--" starting inside s[from..to]
HasDashDash(s, from, to) ==
    \E q \in from..to : q + 1 <= Len(s) /\ s[q] = "-" /\ s[q + 1] = "-"

\* /\[clock::((?:(?!\]|--).)+)\]/ matches at position p: returns the
\* position of the closing bracket, or 0 when there is no match at p
OpenClockEndAt(s, p) ==
    IF ~StartsWithAt(s, p, ClockPrefix) THEN 0
    ELSE LET c == p + Len(ClockPrefix)
             e == IndexOfChar(s, "]", c)
         IN  IF e = 0 \/ e = c \/ HasDashDash(s, c, e - 1) THEN 0 ELSE e

\* regex.exec from lastIndex: position of the leftmost match at or after from
RECURSIVE OpenClockExec(_, _)
OpenClockExec(s, from) ==
    IF from > Len(s) THEN 0
    ELSE IF OpenClockEndAt(s, from) # 0 THEN from
    ELSE OpenClockExec(s, from + 1)

\* openClockRegex.test(line)
HasOpenClock(line) == OpenClockExec(line, 1) # 0

\* the while ((match = regex.exec(line)) !== null) loop: the last match
RECURSIVE LastOpenClock(_, _, _)
LastOpenClock(s, from, last) ==
    LET p == OpenClockExec(s, from) IN
    IF p = 0 THEN last
    ELSE LastOpenClock(s, OpenClockEndAt(s, p) + 1, p)


(***************************************************************************)
(* Time                                                                    *)
(***************************************************************************)

\* the model's clock counts seconds from 0 to MaxTime
MaxTime == 1

Digit == << "0", "1", "2", "3", "4", "5", "6", "7", "8", "9" >>

\* moment().format('YYYY-MM-DDTHH:mm:ss'): one string per second, with
\* single dashes in the date part and neither "]" nor "--"
FormatTimestamp(t) == << "1", "-", Digit[(t % 10) + 1] >>

(***************************************************************************)
(* Task Locator                                                            *)
(***************************************************************************)

\* lines[i].includes(description) && lines[i].includes('- [')
\* the marker is not asked for
LineMatches_descriptionOnly(line, description) ==
    Includes(line, description)

LineMatches(line, description) ==
    Includes(line, description) /\ Includes(line, TaskMarker)

\* the for loop of findTaskInLines: first matching index at or after i, or -1
RECURSIVE ScanForTask(_, _, _)
ScanForTask(lines, description, i) ==
    IF i >= Len(lines) THEN -1
    ELSE IF LineMatches(At(lines, i), description) THEN i
    ELSE ScanForTask(lines, description, i + 1)

\* mutant: the line at the hint is not looked at
TakesFastPath_unchecked(lines, description, startIndex) ==
    /\ startIndex >= 0
    /\ startIndex < Len(lines)

TakesFastPath(lines, description, startIndex) ==
    /\ startIndex >= 0
    /\ startIndex < Len(lines)
    /\ LineMatches(At(lines, startIndex), description)

\* mutant: the scan runs first, the hint is never tried
findTaskInLines_scanOnly(lines, description, startIndex) ==
    ScanForTask(lines, description, 0)

findTaskInLines(lines, description, startIndex) ==
    IF TakesFastPath(lines, description, startIndex) THEN startIndex
    ELSE ScanForTask(lines, description, 0)

(***************************************************************************)
(* Interval Annotator (the body of manageClockProperty)                    *)
(***************************************************************************)

Indentation == << " ", " ", " ", " ", " ", " " >>

OpenToken(timestamp) == ClockPrefix \o timestamp \o << "]" >>

\* mutant: the two timestamps are written in the wrong order
ClosedToken_swapped(startTime, timestamp) ==
    ClockPrefix \o timestamp \o << "-", "-" >> \o startTime \o << "]" >>

ClosedToken(startTime, timestamp) ==
    ClockPrefix \o startTime \o << "-", "-" >> \o timestamp \o << "]" >>

\* first index at or after i whose line is not an annotation-only line
RECURSIVE EndOfRun(_, _)
EndOfRun(lines, i) ==
    IF i < Len(lines) /\ IsClockLine(At(lines, i)) THEN EndOfRun(lines, i + 1)
    ELSE i

\* mutant: the scan for the end of the run starts on the task line, so the
\* token goes above the task
ClockStart_atTask(lines, currentLine, timestamp) ==
    LET insertIndex == EndOfRun(lines, currentLine)
    IN  Splice(lines, insertIndex, Indentation \o OpenToken(timestamp))

\* the existing annotation lines are not skipped
ClockStart_belowTask(lines, currentLine, timestamp) ==
    Splice(lines, currentLine + 1, Indentation \o OpenToken(timestamp))

\* type === 'start'
ClockStart(lines, currentLine, timestamp) ==
    LET insertIndex == EndOfRun(lines, currentLine + 1)
    IN  Splice(lines, insertIndex, Indentation \o OpenToken(timestamp))

\* mutant: the scan stops at the first line of the run that holds an open
\* token
RECURSIVE LastOpenClockIndex_first(_, _, _)
LastOpenClockIndex_first(lines, searchIndex, last) ==
    IF searchIndex < Len(lines) /\ IsClockLine(At(lines, searchIndex))
    THEN IF HasOpenClock(At(lines, searchIndex)) THEN searchIndex
         ELSE LastOpenClockIndex_first(lines, searchIndex + 1, last)
    ELSE last

\* the scan of the 'end' branch: last index of the run whose line holds an
\* open token, or -1
RECURSIVE LastOpenClockIndex(_, _, _)
LastOpenClockIndex(lines, searchIndex, last) ==
    IF searchIndex < Len(lines) /\ IsClockLine(At(lines, searchIndex))
    THEN LastOpenClockIndex(lines, searchIndex + 1,
             IF HasOpenClock(At(lines, searchIndex)) THEN searchIndex ELSE last)
    ELSE last

\* the first open token of the line is rewritten
CloseLastToken_first(line, timestamp) ==
    LET index == OpenClockExec(line, 1) IN
    IF index = 0 THEN line
    ELSE LET e == OpenClockEndAt(line, index)
             startTime == SubSeq(line, index + Len(ClockPrefix), e - 1)
             before == SubSeq(line, 1, index - 1)
             after == Suffix(line, e + 1)
         IN  before \o ClosedToken(startTime, timestamp) \o after

\* rewriting the last open token of one line
CloseLastToken(line, timestamp) ==
    LET index == LastOpenClock(line, 1, 0) IN
    IF index = 0 THEN line
    ELSE LET e == OpenClockEndAt(line, index)
             startTime == SubSeq(line, index + Len(ClockPrefix), e - 1)
             before == SubSeq(line, 1, index - 1)
             after == Suffix(line, e + 1)
         IN  before \o ClosedToken(startTime, timestamp) \o after

\* type === 'end'
ClockEnd(lines, currentLine, timestamp) ==
    LET lastOpenClockIndex == LastOpenClockIndex(lines, currentLine + 1, -1)
    IN  IF lastOpenClockIndex = -1 THEN lines
        ELSE SetAt(lines, lastOpenClockIndex,
                   CloseLastToken(At(lines, lastOpenClockIndex), timestamp))

\* the loop of checkIfTaskIsClockedIn, from searchIndex on
RECURSIVE RunHasOpenClock(_, _)
RunHasOpenClock(lines, searchIndex) ==
    IF searchIndex < Len(lines) /\ IsClockLine(At(lines, searchIndex))
    THEN IF HasOpenClock(At(lines, searchIndex)) THEN TRUE
         ELSE RunHasOpenClock(lines, searchIndex + 1)
    ELSE FALSE

(***************************************************************************)
(* Status symbol rewrite (the body of updateTaskStatus)                    *)
(***************************************************************************)

\* /- \[([^\]])\]/ matches at position p
CheckboxAt(line, p) ==
    /\ StartsWithAt(line, p, TaskMarker)
    /\ p + 4 <= Len(line)
    /\ line[p + 3] # "]"
    /\ line[p + 4] = "]"

\* position of the leftmost checkbox, or 0
RECURSIVE FirstCheckbox(_, _)
FirstCheckbox(line, p) ==
    IF p > Len(line) THEN 0
    ELSE IF CheckboxAt(line, p) THEN p
    ELSE FirstCheckbox(line, p + 1)

\* line.replace(/- \[([^\]])\]/, `- [${newStatus}]`)
ReplaceStatus(line, newStatus) ==
    LET p == FirstCheckbox(line, 1) IN
    IF p = 0 THEN line
    ELSE SubSeq(line, 1, p - 1) \o TaskMarker \o newStatus \o << "]" >>
         \o Suffix(line, p + 5)


(***************************************************************************)
(* Configuration (DEFAULT_SETTINGS, DEFAULT_COLUMNS)                       *)
(***************************************************************************)

DEFAULT_COLUMNS ==
    << [name |-> "TODO",    symbol |-> << " " >>],
       [name |-> "Working", symbol |-> << " " >>],
       [name |-> "Stopped", symbol |-> << "-" >>],
       [name |-> "Done",    symbol |-> << "x" >>] >>

ColumnNames(columns) == { columns[i].name : i \in 1..Len(columns) }

\* Array.prototype.find over a sequence of test results: the index of the
\* first element that passes, or 0
Find(passes) ==
    IF \E i \in DOMAIN passes : passes[i]
    THEN CHOOSE i \in DOMAIN passes :
             passes[i] /\ \A j \in 1..(i - 1) : ~passes[j]
    ELSE 0

\* settings.columns.find(c => c.name === column)
FindByName(columns, column) ==
    Find([ i \in DOMAIN columns |-> columns[i].name = column ])

\* every column is written as ' '
columnToSymbol_blank(columns, column) == << " " >>

\* settings.columns.find(c => c.name === column)?.symbol || ' '
columnToSymbol(columns, column) ==
    LET i == FindByName(columns, column)
    IN  IF i = 0 THEN << " " >>
        ELSE IF columns[i].symbol = << >> THEN << " " >>
        ELSE columns[i].symbol

\* name.toLowerCase() for the column names of the model
ToLowerCase(name) ==
    CASE name = "Done" -> "done"
      [] name = "TODO" -> "todo"
      [] name = "Working" -> "working"
      [] name = "Stopped" -> "stopped"
      [] name = "DONE" -> "done"
      [] OTHER -> name

\* task.status?.symbol || ' ' for a record whose status is an object: a
\* missing or empty symbol reads as a space
StatusSymbol(symbol) == IF symbol = << >> THEN << " " >> ELSE symbol

\* x and X fall back to the first column like every unmapped symbol
symbolToColumn_noDone(columns, symbol) ==
    LET matchingCol ==
            Find([ i \in DOMAIN columns |-> columns[i].symbol = symbol ])
    IN  IF matchingCol # 0 THEN columns[matchingCol].name
        ELSE IF Len(columns) > 0 /\ columns[1].name # "" THEN columns[1].name
        ELSE "TODO"

\* the column lookup of parseTasks
symbolToColumn(columns, symbol) ==
    LET matchingCol ==
            Find([ i \in DOMAIN columns |-> columns[i].symbol = symbol ])
        doneCol ==
            Find([ i \in DOMAIN columns |->
                     ToLowerCase(columns[i].name) = "done" ])
    IN  IF matchingCol # 0 THEN columns[matchingCol].name
        ELSE IF symbol \in { << "x" >>, << "X" >> } /\ doneCol # 0
             THEN columns[doneCol].name
        ELSE IF Len(columns) > 0 /\ columns[1].name # "" THEN columns[1].name
        ELSE "TODO"


(***************************************************************************)
(* State                                                                   *)
(***************************************************************************)

VARIABLES
    vault,                \* path -> document text, for the files that exist
    settings,             \* plugin.settings
    heap,                 \* the KanbanTask objects created so far
    viewTasks,            \* KanbanView.tasks: references into heap
    draggedTaskId,        \* KanbanView.draggedTaskId
    draggedSourceColumn,  \* KanbanView.draggedSourceColumn
    modificationQueue,    \* path -> the promise at the tail of its chain
    acts,                 \* the promises made by queueFileAction, in order
    moves,                \* the invocations of handleTaskMove, in order
    now,                  \* wall clock, in seconds
    probe                 \* inputs and results of a function applied alone

vars == << vault, settings, heap, viewTasks, draggedTaskId,
           draggedSourceColumn, modificationQueue, acts, moves, now, probe >>

\* no function is being applied alone
NoProbe == [ op |-> "none" ]

Paths == { "p", "q" }

\* null / undefined
NoId == << >>
NoColumn == ""
NoTime == << >>

\* moment().format(settings.timeFormat) with the default 'HH:mm'
FormatTime(t) == << Digit[((t \div 60) % 10) + 1] >>

(***************************************************************************)
(* Task Ingestion (parseTasks, checkIfTaskIsClockedIn, loadTasks)          *)
(***************************************************************************)

\* symbol.toUpperCase() for the status symbols of the model
ToUpperCase(symbol) == IF symbol = << "x" >> THEN << "X" >> ELSE symbol

\* mapStatus called with a string
mapStatus(cfg, tasksStatus) ==
    LET symbol == tasksStatus
        status == ToUpperCase(symbol)
        clockCol == FindByName(cfg.columns, cfg.clockColumn)
    IN  IF status = << "X" >> THEN "done"
        ELSE IF status = << "/" >> THEN "in_progress"
        ELSE IF status = << "-" >> THEN "cancelled"
        ELSE IF clockCol # 0 /\ symbol = cfg.columns[clockCol].symbol
             THEN "in_progress"
        ELSE "todo"

\* the flag follows the symbol of the clock column
ClockedInAtParse_bySymbol(cfg, raw, column) ==
    \/ raw.isClockedIn
    \/ StatusSymbol(raw.symbol) = columnToSymbol(cfg.columns, cfg.clockColumn)

\* task.isClockedIn || column === this.plugin.settings.clockColumn
ClockedInAtParse(cfg, raw, column) ==
    raw.isClockedIn \/ column = cfg.clockColumn

\* one element of the map in parseTasks; index is the 0-based array index.
\* The argument of mapStatus is the identifier `status`, which parseTasks
\* neither declares nor receives: it reads the global window.status, passed
\* here as the parameter of that name.
ParseTask(cfg, raw, index, status) ==
    LET column == symbolToColumn(cfg.columns, StatusSymbol(raw.symbol)) IN
    [ id          |-> << raw.path,
                         IF raw.lineNumber # 0 THEN raw.lineNumber ELSE index >>,
      description |-> raw.description,
      column      |-> column,
      status      |-> mapStatus(cfg, status),
      sourcePath  |-> raw.path,
      lineNumber  |-> raw.lineNumber,
      isClockedIn |-> ClockedInAtParse(cfg, raw, column),
      startTime   |-> NoTime,
      endTime     |-> NoTime ]

\* the filter of parseTasks
KeepsTask(cfg, task) ==
    LET i == FindByName(cfg.columns, task.column)
        isDone == i # 0 /\ cfg.columns[i].symbol \in { << "x" >>, << "X" >> }
    IN  ~(~cfg.showCompletedTasks /\ isDone)

RECURSIVE ParseFrom(_, _, _, _)
ParseFrom(cfg, rawTasks, index, status) ==
    IF index >= Len(rawTasks) THEN << >>
    ELSE LET task == ParseTask(cfg, At(rawTasks, index), index, status)
         IN  (IF KeepsTask(cfg, task) THEN << task >> ELSE << >>)
             \o ParseFrom(cfg, rawTasks, index + 1, status)

parseTasks(cfg, rawTasks, status) == ParseFrom(cfg, rawTasks, 0, status)

checkIfTaskIsClockedIn(files, task) ==
    IF task.sourcePath \notin DOMAIN files THEN FALSE
    ELSE LET lines == Split(files[task.sourcePath]) IN
         IF task.lineNumber < 0 \/ task.lineNumber >= Len(lines) THEN FALSE
         ELSE RunHasOpenClock(lines, task.lineNumber + 1)

\* the second pass of loadTasks
ForceClockColumn(cfg, files, task) ==
    IF checkIfTaskIsClockedIn(files, task)
    THEN [task EXCEPT !.isClockedIn = TRUE, !.column = cfg.clockColumn]
    ELSE task

loadTasks(cfg, files, rawTasks, status) ==
    LET parsed == parseTasks(cfg, rawTasks, status)
    IN  [ i \in 1..Len(parsed) |-> ForceClockColumn(cfg, files, parsed[i]) ]

\* appAny.plugins.plugins['obsidian-tasks-plugin'] as loadTasks finds it:
\* the plugin with getTasks, the plugin without that method, no plugin, or
\* a plugin whose getTasks throws
TaskSources == { "present", "noGetTasks", "absent", "throws" }

NoticeNotFound == "Tasks plugin not found. Please install obsidian-tasks-plugin."
NoticeLoadError == "Error loading tasks from Tasks plugin"

\* mutant: loadTasks without its try/catch: the exception leaves the
\* function and this.tasks keeps what it held
LoadResult_noCatch(previous, cfg, files, source, rawTasks, status) ==
    IF source = "absent"
    THEN [ tasks |-> << >>, notices |-> << NoticeNotFound >>,
           raised |-> FALSE ]
    ELSE IF source = "throws"
    THEN [ tasks |-> previous, notices |-> << >>, raised |-> TRUE ]
    ELSE [ tasks   |-> loadTasks(cfg, files,
                                 IF source = "noGetTasks" THEN << >>
                                 ELSE rawTasks, status),
           notices |-> << >>,
           raised  |-> FALSE ]

\* the whole of KanbanView.loadTasks: this.tasks after the call, the
\* notices it showed and whether an exception left it; `previous` is
\* this.tasks before the call
LoadResult(previous, cfg, files, source, rawTasks, status) ==
    IF source = "absent"
    THEN [ tasks |-> << >>, notices |-> << NoticeNotFound >>,
           raised |-> FALSE ]
    ELSE IF source = "throws"
    THEN [ tasks |-> << >>, notices |-> << NoticeLoadError >>,
           raised |-> FALSE ]
    ELSE [ tasks   |-> loadTasks(cfg, files,
                                 IF source = "noGetTasks" THEN << >>
                                 ELSE rawTasks, status),
           notices |-> << >>,
           raised  |-> FALSE ]

(***************************************************************************)
(* Initial states: a vault, the records the task index holds for it, and   *)
(* the board built from them by one ingestion pass                         *)
(***************************************************************************)

\* window.status when no script has assigned it
WindowStatus == << >>

TaskLine(symbol, description) ==
    TaskMarker \o symbol \o << "]", " " >> \o description

HeadingLine == << "#" >>

AnnotationLines(ann) ==
    CASE ann = "open"   -> << Indentation \o OpenToken(FormatTimestamp(0)) >>
      [] ann = "closed" -> << Indentation \o ClosedToken(FormatTimestamp(0),
                                                           FormatTimestamp(0)) >>
      [] OTHER          -> << >>

\* sym1, ann1: the status symbol and the annotation of the first task "a";
\* desc2, same: the description of the second task and whether it lives in
\* the same document; drift: lines inserted at the top of document "p"
\* since the index was built; auto: settings.autoClockInOut
Scenario(sym1, ann1, desc2, same, drift, auto) ==
    [ sym1 |-> sym1, ann1 |-> ann1, desc2 |-> desc2, same |-> same,
      drift |-> drift, auto |-> auto ]

Scenarios ==
    { Scenario(<< " " >>, "none", << "b" >>, TRUE,  0, TRUE),
      Scenario(<< " " >>, "none", << "b" >>, FALSE, 1, TRUE),
      Scenario(<< "/" >>, "open", << "b" >>, TRUE,  1, TRUE),
      Scenario(<< " " >>, "none", << "a" >>, TRUE,  1, TRUE),
      Scenario(<< "/" >>, "open", << "b" >>, TRUE,  0, FALSE) }

\* document "p" as it was when the task index read it
IndexedLines(sc) ==
    << TaskLine(sc.sym1, << "a" >>) >> \o AnnotationLines(sc.ann1)
    \o (IF sc.same THEN << TaskLine(<< " " >>, sc.desc2) >> ELSE << >>)

ScenarioVault(sc) ==
    [ path \in Paths |->
        IF path = "p"
        THEN Join([ i \in 1..sc.drift |-> HeadingLine ] \o IndexedLines(sc))
        ELSE IF sc.same THEN HeadingLine
        ELSE TaskLine(<< " " >>, sc.desc2) ]

ScenarioRecords(sc) ==
    << [ path |-> "p", lineNumber |-> 0, description |-> << "a" >>,
         symbol |-> sc.sym1, isClockedIn |-> FALSE ],
       [ path |-> IF sc.same THEN "p" ELSE "q",
         lineNumber |-> IF sc.same THEN 1 + Len(AnnotationLines(sc.ann1)) ELSE 0,
         description |-> sc.desc2,
         symbol |-> << " " >>, isClockedIn |-> FALSE ] >>

ScenarioSettings(sc) ==
    [ autoClockInOut     |-> sc.auto,
      clockColumn        |-> "Working",
      showCompletedTasks |-> FALSE,
      columns            |-> DEFAULT_COLUMNS ]

Init ==
    \E sc \in Scenarios :
        /\ vault = ScenarioVault(sc)
        /\ settings = ScenarioSettings(sc)
        /\ heap = loadTasks(ScenarioSettings(sc), ScenarioVault(sc),
                            ScenarioRecords(sc), WindowStatus)
        /\ viewTasks = [ i \in 1..Len(heap) |-> i ]
        /\ draggedTaskId = NoId
        /\ draggedSourceColumn = NoColumn
        /\ modificationQueue = [ path \in Paths |-> 0 ]
        /\ acts = << >>
        /\ moves = << >>
        /\ now = 0
        /\ probe = NoProbe


(***************************************************************************)
(* Document Mutation Queue (queueFileAction)                               *)
(***************************************************************************)

\* the handleTaskMove invocations the model follows
MaxMoves == 2

\* mutant: the stored tail is never looked up, every action chains on a
\* fresh resolved promise
TailOf_fresh(path) == 0

\* mutant: one chain for the whole vault instead of one per path
TailOf_shared(path) == modificationQueue["p"]

\* this.modificationQueue.get(path) || Promise.resolve(); 0 is a promise
\* that is already resolved
TailOf(path) == modificationQueue[path]

\* the promise queueFileAction makes: currentAction.then(action).catch(...)
NewAct(path, kind, task, column) ==
    [ path      |-> path,
      kind      |-> kind,       \* "start" | "end" | "status"
      task      |-> task,       \* the task object the closure captured
      column    |-> column,     \* the column argument of updateTaskStatus
      pred      |-> TailOf(path),
      pc        |-> "queued",   \* "queued" | "reading" | "writing" | "done"
      content   |-> << >>,      \* what vault.read returned, while in use
      pending   |-> << >>,      \* what vault.modify was called with
      timestamp |-> << >>,      \* the timestamp a clock edit took
      log       |-> { } ]       \* the console levels its body has logged at

\* mutant: the new promise is not stored as the tail of its path
Enqueued_notStored(path) == modificationQueue

\* this.modificationQueue.set(path, nextAction)
Enqueued(path) == [modificationQueue EXCEPT ![path] = Len(acts) + 1]

\* mutant: the action is called at once instead of from currentAction.then
PredSettled_always(a) == TRUE

\* mutant: neither the body nor the chain catches: a failed action leaves
\* a rejected promise, and .then on it never calls the next action
PredSettled_unlessFailed(a) ==
    IF acts[a].pred = 0 THEN TRUE
    ELSE /\ acts[acts[a].pred].pc = "done"
         /\ "error" \notin acts[acts[a].pred].log

\* currentAction has settled, so its .then callback is due
PredSettled(a) ==
    IF acts[a].pred = 0 THEN TRUE ELSE acts[acts[a].pred].pc = "done"

\* mutant: enqueueing on a path cancels what is still waiting on it
Runnable_tailOnly(a) ==
    /\ acts[a].pc = "queued"
    /\ PredSettled(a)
    /\ modificationQueue[acts[a].path] = a

Runnable(a) == acts[a].pc = "queued" /\ PredSettled(a)

Started(a) == acts[a].pc \in { "reading", "writing", "done" }

(***************************************************************************)
(* Transition Controller (handleTaskMove)                                  *)
(***************************************************************************)

\* mutant: the test on the target column is missing
ClockOutCond_anyTarget(sourceColumn, targetColumn) ==
    /\ sourceColumn = settings.clockColumn
    /\ settings.autoClockInOut

ClockOutCond(sourceColumn, targetColumn) ==
    /\ sourceColumn = settings.clockColumn
    /\ targetColumn # settings.clockColumn
    /\ settings.autoClockInOut

\* mutant: neither handleTaskMove nor clockIn looks at autoClockInOut
ClockInCond_anySetting(sourceColumn, targetColumn) ==
    /\ targetColumn = settings.clockColumn
    /\ sourceColumn # settings.clockColumn

ClockInCond(sourceColumn, targetColumn) ==
    /\ targetColumn = settings.clockColumn
    /\ sourceColumn # settings.clockColumn
    /\ settings.autoClockInOut

NewMove(task, sourceColumn, targetColumn, pc, clockAct, statusAct) ==
    [ task      |-> task,
      source    |-> sourceColumn,
      target    |-> targetColumn,
      pc        |-> pc,         \* the await it is suspended at, or "done"
      clockAct  |-> clockAct,   \* the promise of its clockIn / clockOut
      statusAct |-> statusAct ] \* the promise of its updateTaskStatus

\* the promise a suspended invocation awaits
AwaitedAct(m) ==
    IF moves[m].pc \in { "clockOut", "clockIn" } THEN moves[m].clockAct
    ELSE moves[m].statusAct

\* mutant: clockIn and clockOut have no try/catch and the awaited promise
\* rejects when the edit failed: handleTaskMove ends at that await
Resumable_ifSucceeded(m) ==
    /\ moves[m].pc # "done"
    /\ acts[AwaitedAct(m)].pc = "done"
    /\ acts[AwaitedAct(m)].log = { }

Resumable(m) == moves[m].pc # "done" /\ acts[AwaitedAct(m)].pc = "done"

\* a promise reaction is due: reactions run before the next event or I/O
\* completion
MicrotaskPending ==
    IF \E a \in 1..Len(acts) : Runnable(a) THEN TRUE
    ELSE \E m \in 1..Len(moves) : Resumable(m)

\* mutant: the status rewrite is issued first and the interval edit is
\* issued behind it without being awaited
HandleTaskMove_statusFirst(task, sourceColumn, targetColumn) ==
    LET a == Len(acts) + 1
        path == heap[task].sourcePath
        kind == IF ClockOutCond(sourceColumn, targetColumn) THEN "end"
                ELSE "start"
        clocks == IF ClockOutCond(sourceColumn, targetColumn) THEN TRUE
                  ELSE ClockInCond(sourceColumn, targetColumn)
    IN  /\ Len(moves) < MaxMoves
        /\ heap' = [heap EXCEPT ![task].column = targetColumn]
        /\ IF clocks
           THEN /\ acts' = acts \o
                     << NewAct(path, "status", task, targetColumn),
                        [NewAct(path, kind, task, NoColumn) EXCEPT !.pred = a] >>
                /\ modificationQueue' =
                     [modificationQueue EXCEPT ![path] = a + 1]
                /\ moves' = Append(moves, NewMove(task, sourceColumn,
                                       targetColumn, "status", a + 1, a))
           ELSE /\ acts' = Append(acts, NewAct(path, "status", task,
                                       targetColumn))
                /\ modificationQueue' = Enqueued(path)
                /\ moves' = Append(moves, NewMove(task, sourceColumn,
                                       targetColumn, "status", 0, a))

\* handleTaskMove from its entry up to its first await
HandleTaskMove(task, sourceColumn, targetColumn) ==
    LET a == Len(acts) + 1
        path == heap[task].sourcePath
    IN  /\ Len(moves) < MaxMoves
        /\ modificationQueue' = Enqueued(path)
        /\ IF ClockOutCond(sourceColumn, targetColumn)
           THEN /\ acts' = Append(acts, NewAct(path, "end", task, NoColumn))
                /\ moves' = Append(moves, NewMove(task, sourceColumn,
                                       targetColumn, "clockOut", a, 0))
                /\ heap' = heap
           ELSE IF ClockInCond(sourceColumn, targetColumn)
           THEN /\ acts' = Append(acts, NewAct(path, "start", task, NoColumn))
                /\ moves' = Append(moves, NewMove(task, sourceColumn,
                                       targetColumn, "clockIn", a, 0))
                /\ heap' = heap
           ELSE /\ acts' = Append(acts, NewAct(path, "status", task,
                                       targetColumn))
                /\ moves' = Append(moves, NewMove(task, sourceColumn,
                                       targetColumn, "status", 0, a))
                /\ heap' = [heap EXCEPT ![task].column = targetColumn]

\* handleTaskMove resumed after an await, up to its next await or its end
Resume(m) ==
    LET mv == moves[m]
        a == Len(acts) + 1
        path == heap[mv.task].sourcePath
        clocked == IF mv.pc = "clockOut"
                   THEN [heap EXCEPT ![mv.task].isClockedIn = FALSE,
                                     ![mv.task].endTime = FormatTime(now)]
                   ELSE [heap EXCEPT ![mv.task].isClockedIn = TRUE,
                                     ![mv.task].startTime = FormatTime(now)]
    IN  /\ Resumable(m)
        /\ IF mv.pc = "status"
           THEN /\ moves' = [moves EXCEPT ![m].pc = "done"]
                /\ UNCHANGED << heap, acts, modificationQueue >>
           ELSE IF mv.pc = "clockOut" /\ ClockInCond(mv.source, mv.target)
           THEN /\ acts' = Append(acts, NewAct(path, "start", mv.task, NoColumn))
                /\ moves' = [moves EXCEPT ![m].pc = "clockIn",
                                          ![m].clockAct = a]
                /\ heap' = clocked
                /\ modificationQueue' = Enqueued(path)
           ELSE /\ acts' = Append(acts, NewAct(path, "status", mv.task,
                                       mv.target))
                /\ moves' = [moves EXCEPT ![m].pc = "status",
                                          ![m].statusAct = a]
                /\ heap' = [clocked EXCEPT ![mv.task].column = mv.target]
                /\ modificationQueue' = Enqueued(path)
        /\ UNCHANGED << vault, settings, probe, viewTasks, draggedTaskId,
                        draggedSourceColumn, now >>

(***************************************************************************)
(* Triggers                                                                *)
(***************************************************************************)

\* this.tasks.find(t => t.id === id): the first object with that id, or 0
RECURSIVE FindTaskById(_, _)
FindTaskById(id, i) ==
    IF i > Len(viewTasks) THEN 0
    ELSE IF heap[viewTasks[i]].id = id THEN viewTasks[i]
    ELSE FindTaskById(id, i + 1)

\* the dragstart handler of a rendered card
DragStart(i) ==
    /\ Len(moves) < MaxMoves
    /\ draggedTaskId = NoId
    /\ ~MicrotaskPending
    /\ heap[viewTasks[i]].column \in ColumnNames(settings.columns)
    /\ draggedTaskId' = heap[viewTasks[i]].id
    /\ draggedSourceColumn' = heap[viewTasks[i]].column
    /\ UNCHANGED << vault, settings, probe, heap, viewTasks, modificationQueue,
                    acts, moves, now >>

\* the dragend handler when the card is released outside every column
DragEnd ==
    /\ draggedTaskId # NoId
    /\ ~MicrotaskPending
    /\ draggedTaskId' = NoId
    /\ draggedSourceColumn' = NoColumn
    /\ UNCHANGED << vault, settings, probe, heap, viewTasks, modificationQueue,
                    acts, moves, now >>

\* the drop handler of a column, and the dragend that follows the drop
Drop(columnType) ==
    LET task == FindTaskById(draggedTaskId, 1) IN
    /\ draggedTaskId # NoId
    /\ ~MicrotaskPending
    /\ draggedTaskId' = NoId
    /\ draggedSourceColumn' = NoColumn
    /\ IF \/ draggedSourceColumn = NoColumn
          \/ draggedSourceColumn = columnType
          \/ task = 0
       THEN UNCHANGED << heap, acts, moves, modificationQueue >>
       ELSE HandleTaskMove(task, draggedSourceColumn, columnType)
    /\ UNCHANGED << vault, settings, probe, viewTasks, now >>

moveTaskToColumn(taskId, column) ==
    LET task == FindTaskById(taskId, 1) IN
    /\ Len(moves) < MaxMoves
    /\ ~MicrotaskPending
    /\ task # 0
    /\ HandleTaskMove(task, heap[task].column, column)
    /\ UNCHANGED << vault, settings, probe, viewTasks, draggedTaskId,
                    draggedSourceColumn, now >>

(***************************************************************************)
(* The queued action bodies (manageClockProperty, updateTaskStatus)        *)
(***************************************************************************)

\* the .then callback of the chain starts the body: getAbstractFileByPath,
\* then vault.read is issued
RunAction(a) ==
    /\ Runnable(a)
    /\ acts' = [acts EXCEPT ![a].pc =
                   IF acts[a].path \in DOMAIN vault THEN "reading" ELSE "done"]
    /\ UNCHANGED << vault, settings, probe, heap, viewTasks, draggedTaskId,
                    draggedSourceColumn, modificationQueue, moves, now >>

\* the text a status action writes back, given the lines and the task line
StatusEditWith(columns, lines, currentLine, column) ==
    SetAt(lines, currentLine,
          ReplaceStatus(At(lines, currentLine),
                        columnToSymbol(columns, column)))

\* the same with the column list of the settings
StatusEdit(lines, currentLine, column) ==
    SetAt(lines, currentLine,
          ReplaceStatus(At(lines, currentLine),
                        columnToSymbol(settings.columns, column)))

\* the lines an action of the given kind produces
EditedLines(act, lines, currentLine, timestamp) ==
    CASE act.kind = "start" -> ClockStart(lines, currentLine, timestamp)
      [] act.kind = "end"   -> ClockEnd(lines, currentLine, timestamp)
      [] OTHER              -> StatusEdit(lines, currentLine, act.column)

\* the body from the line after findTaskInLines to vault.modify or return;
\* moment() is at most one second later than the last time it was asked
ReadLocated(a, content, lines, currentLine) ==
    LET act == acts[a]
        stamps == currentLine # -1 /\ act.kind # "status"
    IN  /\ \E t \in now..(now + 1) :
             /\ t <= MaxTime
             /\ now' = IF stamps THEN t ELSE now
             /\ \E edited \in { IF currentLine = -1 THEN lines
                                ELSE EditedLines(act, lines, currentLine,
                                                 FormatTimestamp(t)) } :
                  LET returns == IF currentLine = -1 THEN TRUE
                                 ELSE act.kind = "status" /\ edited = lines
                  IN  acts' = [acts EXCEPT
                        ![a].pc = IF returns THEN "done" ELSE "writing",
                        ![a].content = IF returns THEN << >> ELSE content,
                        ![a].pending = IF returns THEN << >> ELSE Join(edited),
                        ![a].timestamp = IF stamps THEN FormatTimestamp(t)
                                         ELSE << >>,
                        ![a].log = IF currentLine = -1 /\ act.kind # "status"
                                   THEN act.log \cup { "warn" }
                                   ELSE act.log]
        /\ heap' = IF currentLine = -1 THEN heap
                   ELSE [heap EXCEPT ![act.task].lineNumber = currentLine]

\* vault.read resolves: the body runs up to vault.modify or to its return
ReadDone(a) ==
    /\ acts[a].pc = "reading"
    /\ acts[a].path \in DOMAIN vault
    /\ ~MicrotaskPending
    /\ \E lines \in { Split(vault[acts[a].path]) } :
       \E currentLine \in
           { findTaskInLines(lines, heap[acts[a].task].description,
                             heap[acts[a].task].lineNumber) } :
         ReadLocated(a, vault[acts[a].path], lines, currentLine)
    /\ UNCHANGED << vault, settings, probe, viewTasks, draggedTaskId,
                    draggedSourceColumn, modificationQueue, moves >>

\* vault.modify resolves: the file holds the new text and the body returns
WriteDone(a) ==
    /\ acts[a].pc = "writing"
    /\ acts[a].path \in DOMAIN vault
    /\ ~MicrotaskPending
    /\ vault' = [vault EXCEPT ![acts[a].path] = acts[a].pending]
    /\ acts' = [acts EXCEPT ![a].pc = "done", ![a].content = << >>,
                             ![a].pending = << >>]
    /\ UNCHANGED << settings, probe, heap, viewTasks, draggedTaskId,
                    draggedSourceColumn, modificationQueue, moves, now >>

\* promise reactions (RunAction, Resume) run to exhaustion after every task;
\* an event or an I/O completion is taken only when none is pending
Next ==
    \/ \E a \in 1..Len(acts) : RunAction(a)
    \/ \E m \in 1..Len(moves) : Resume(m)
    \/ \E i \in 1..Len(viewTasks) : DragStart(i)
    \/ DragEnd
    \/ \E columnType \in ColumnNames(settings.columns) : Drop(columnType)
    \/ \E i \in 1..Len(viewTasks), column \in ColumnNames(settings.columns) :
           moveTaskToColumn(heap[viewTasks[i]].id, column)
    \/ \E a \in 1..Len(acts) : ReadDone(a)
    \/ \E a \in 1..Len(acts) : WriteDone(a)

Spec == Init /\ [][Next]_vars

(***************************************************************************)
(* The board with failing storage: reads and writes that reject, lines and *)
(* files deleted under a pending transition                                *)
(***************************************************************************)

\* the failures and deletions the model follows
MaxFaults == 1

FaultScenarios ==
    { Scenario(<< " " >>, "none", << "b" >>, TRUE, 0, TRUE) }

\* the board holds the first task of the document only, and the clock
\* stands at the last second the model follows
InitFault ==
    \E sc \in FaultScenarios :
        /\ vault = ScenarioVault(sc)
        /\ settings = ScenarioSettings(sc)
        /\ heap = loadTasks(ScenarioSettings(sc), ScenarioVault(sc),
                            SubSeq(ScenarioRecords(sc), 1, 1), WindowStatus)
        /\ viewTasks = [ i \in 1..Len(heap) |-> i ]
        /\ draggedTaskId = NoId
        /\ draggedSourceColumn = NoColumn
        /\ modificationQueue = [ path \in Paths |-> 0 ]
        /\ acts = << >>
        /\ moves = << >>
        /\ now = MaxTime
        /\ probe = [ op |-> "faults", left |-> MaxFaults ]

FaultsLeft == probe.op = "faults" /\ probe.left > 0

\* vault.read rejects: the catch of the body logs the error and the body
\* returns; a read of a file that is gone always rejects
ReadFails(a) ==
    /\ acts[a].pc = "reading"
    /\ ~MicrotaskPending
    /\ IF acts[a].path \in DOMAIN vault
       THEN /\ FaultsLeft
            /\ probe' = [probe EXCEPT !.left = probe.left - 1]
       ELSE probe' = probe
    /\ acts' = [acts EXCEPT ![a].pc = "done", ![a].content = << >>,
                             ![a].log = acts[a].log \cup { "error" }]
    /\ UNCHANGED << vault, settings, heap, viewTasks, draggedTaskId,
                    draggedSourceColumn, modificationQueue, moves, now >>

\* vault.modify rejects: the file keeps its text, the catch of the body
\* logs the error and the body returns
WriteFails(a) ==
    /\ acts[a].pc = "writing"
    /\ ~MicrotaskPending
    /\ IF acts[a].path \in DOMAIN vault
       THEN /\ FaultsLeft
            /\ probe' = [probe EXCEPT !.left = probe.left - 1]
       ELSE probe' = probe
    /\ acts' = [acts EXCEPT ![a].pc = "done", ![a].content = << >>,
                             ![a].pending = << >>,
                             ![a].log = acts[a].log \cup { "error" }]
    /\ UNCHANGED << vault, settings, heap, viewTasks, draggedTaskId,
                    draggedSourceColumn, modificationQueue, moves, now >>

\* the user deletes the line of a task of the board from its document
DeleteLine(task) ==
    /\ FaultsLeft
    /\ ~MicrotaskPending
    /\ heap[task].sourcePath \in DOMAIN vault
    /\ \E path \in { heap[task].sourcePath } :
       \E lines \in { Split(vault[path]) } :
       \E i \in { findTaskInLines(lines, heap[task].description, 0) } :
         /\ i # -1
         /\ vault' = [vault EXCEPT
                        ![path] = Join(SubSeq(lines, 1, i)
                                       \o Suffix(lines, i + 2))]
    /\ probe' = [probe EXCEPT !.left = probe.left - 1]
    /\ UNCHANGED << settings, heap, viewTasks, draggedTaskId,
                    draggedSourceColumn, modificationQueue, acts, moves, now >>

\* the user deletes a file: getAbstractFileByPath returns null from now on
DeleteFile(path) ==
    /\ FaultsLeft
    /\ ~MicrotaskPending
    /\ path \in DOMAIN vault
    /\ vault' = [ other \in DOMAIN vault \ { path } |-> vault[other] ]
    /\ probe' = [probe EXCEPT !.left = probe.left - 1]
    /\ UNCHANGED << settings, heap, viewTasks, draggedTaskId,
                    draggedSourceColumn, modificationQueue, acts, moves, now >>

\* what the program does once a gesture has been made
ProgramStep ==
    \/ \E a \in 1..Len(acts) : RunAction(a)
    \/ \E m \in 1..Len(moves) : Resume(m)
    \/ \E a \in 1..Len(acts) : ReadDone(a)
    \/ \E a \in 1..Len(acts) : WriteDone(a)
    \/ \E a \in 1..Len(acts) : ReadFails(a)
    \/ \E a \in 1..Len(acts) : WriteFails(a)

NextFault ==
    \/ ProgramStep
    \/ \E i \in 1..Len(viewTasks), column \in ColumnNames(settings.columns) :
           moveTaskToColumn(heap[viewTasks[i]].id, column)
    \/ \E i \in 1..Len(viewTasks) : DeleteLine(viewTasks[i])
    \/ \E i \in 1..Len(viewTasks) : DeleteFile(heap[viewTasks[i]].sourcePath)

\* every vault.read settles: no read stays outstanding for ever
ReadsTerminate ==
    []<>(\A a \in 1..Len(acts) : acts[a].pc # "reading")

\* every vault.modify settles
WritesTerminate ==
    WF_vars(\E a \in 1..Len(acts) : WriteDone(a) \/ WriteFails(a))

\* the event loop runs the promise reactions that are due
ReactionsRun ==
    WF_vars(\/ \E a \in 1..Len(acts) : RunAction(a)
            \/ \E m \in 1..Len(moves) : Resume(m))

SpecFault ==
    /\ InitFault
    /\ [][NextFault]_vars
    /\ ReactionsRun
    /\ ReadsTerminate
    /\ WritesTerminate

(***************************************************************************)
(* The board with refreshes: loadTasks run again while the view is open    *)
(***************************************************************************)

\* the refreshes the model follows
MaxRefreshes == 1

\* a board with auto-interval on and nothing annotated, and one with
\* auto-interval off and an interval open
RefreshScenarios ==
    { Scenario(<< " " >>, "none", << "b" >>, TRUE, 0, TRUE),
      Scenario(<< "/" >>, "open", << "b" >>, TRUE, 0, FALSE) }

\* probe.left: refreshes still to come; probe.checking: the position in
\* this.tasks of the task the second pass of a running loadTasks checks
\* next, 0 when no loadTasks is running
InitRefresh ==
    \E sc \in RefreshScenarios :
        /\ vault = ScenarioVault(sc)
        /\ settings = ScenarioSettings(sc)
        /\ heap = loadTasks(ScenarioSettings(sc), ScenarioVault(sc),
                            ScenarioRecords(sc), WindowStatus)
        /\ viewTasks = [ i \in 1..Len(heap) |-> i ]
        /\ draggedTaskId = NoId
        /\ draggedSourceColumn = NoColumn
        /\ modificationQueue = [ path \in Paths |-> 0 ]
        /\ acts = << >>
        /\ moves = << >>
        /\ now = MaxTime
        /\ probe = [ op |-> "refresh", left |-> MaxRefreshes, checking |-> 0 ]

\* the line is a list item with a checkbox of one character
IsTaskLine(line) ==
    /\ Len(line) >= 6
    /\ CheckboxAt(line, 1)
    /\ line[6] = " "

\* the records the Tasks plugin holds for the lines of one document from
\* line i on, once it has indexed the document as it is
RECURSIVE IndexedFrom(_, _, _)
IndexedFrom(path, lines, i) ==
    IF i >= Len(lines) THEN << >>
    ELSE (IF IsTaskLine(At(lines, i))
          THEN << [ path        |-> path,
                    lineNumber  |-> i,
                    description |-> SubSeq(At(lines, i), 7, Len(At(lines, i))),
                    symbol      |-> << At(lines, i)[4] >>,
                    isClockedIn |-> FALSE ] >>
          ELSE << >>) \o IndexedFrom(path, lines, i + 1)

\* tasksPlugin.getTasks() over the documents as they are
getTasks(files) ==
    (IF "p" \in DOMAIN files THEN IndexedFrom("p", Split(files["p"]), 0)
     ELSE << >>)
    \o (IF "q" \in DOMAIN files THEN IndexedFrom("q", Split(files["q"]), 0)
        ELSE << >>)

\* this.tasks = this.parseTasks(rawTasks): the objects are new ones
RefreshedObjects(parsed) == [ i \in 1..Len(parsed) |-> Len(heap) + i ]

\* the refresh button, the refresh command or the view becoming active:
\* loadTasks up to its first await
RefreshStart ==
    /\ probe.op = "refresh"
    /\ probe.left > 0
    /\ probe.checking = 0
    /\ ~MicrotaskPending
    /\ \E parsed \in { parseTasks(settings, getTasks(vault), WindowStatus) } :
         /\ heap' = heap \o parsed
         /\ viewTasks' = RefreshedObjects(parsed)
         /\ probe' = [probe EXCEPT !.left = probe.left - 1,
                                   !.checking = IF Len(parsed) = 0 THEN 0
                                                ELSE 1]
    /\ UNCHANGED << vault, settings, draggedTaskId, draggedSourceColumn,
                    modificationQueue, acts, moves, now >>

\* the read of one checkIfTaskIsClockedIn of the second pass completes
RefreshCheck ==
    /\ probe.op = "refresh"
    /\ probe.checking >= 1
    /\ ~MicrotaskPending
    /\ \E t \in { viewTasks[probe.checking] } :
         heap' = [heap EXCEPT ![t] = ForceClockColumn(settings, vault, heap[t])]
    /\ probe' = [probe EXCEPT !.checking =
                    IF probe.checking = Len(viewTasks) THEN 0
                    ELSE probe.checking + 1]
    /\ UNCHANGED << vault, settings, viewTasks, draggedTaskId,
                    draggedSourceColumn, modificationQueue, acts, moves, now >>

NextRefresh ==
    \/ \E a \in 1..Len(acts) : RunAction(a)
    \/ \E m \in 1..Len(moves) : Resume(m)
    \/ \E a \in 1..Len(acts) : ReadDone(a)
    \/ \E a \in 1..Len(acts) : WriteDone(a)
    \/ \E i \in 1..Len(viewTasks), column \in ColumnNames(settings.columns) :
           moveTaskToColumn(heap[viewTasks[i]].id, column)
    \/ RefreshStart
    \/ RefreshCheck

SpecRefresh == InitRefresh /\ [][NextRefresh]_vars

\* boards over documents that hold no annotation yet
InitPlain ==
    /\ Init
    /\ \A path \in Paths : ~Includes(vault[path], ClockPrefix)

SpecPlain == InitPlain /\ [][Next]_vars

\* boards of a user who has switched autoClockInOut off
InitAutoOff ==
    /\ Init
    /\ ~settings.autoClockInOut

SpecAutoOff == InitAutoOff /\ [][Next]_vars


(***************************************************************************)
(* findTaskInLines and the two branches of manageClockProperty applied to  *)
(* documents of their own, with no board                                   *)
(***************************************************************************)

boardVars == << vault, settings, heap, viewTasks, draggedTaskId,
                draggedSourceColumn, modificationQueue, acts, moves, now >>

\* no view is open and no file exists
NoBoard ==
    /\ vault = << >>
    /\ settings = ScenarioSettings(Scenario(<< " " >>, "none", << "b" >>,
                                            TRUE, 0, TRUE))
    /\ heap = << >>
    /\ viewTasks = << >>
    /\ draggedTaskId = NoId
    /\ draggedSourceColumn = NoColumn
    /\ modificationQueue = [ path \in Paths |-> 0 ]
    /\ acts = << >>
    /\ moves = << >>
    /\ now = 0

SeqsUpTo(S, n) == UNION { [ 1..k -> S ] : k \in 0..n }

\* longest document
MaxLines == 4

\* lines a document may hold next to the task "a": the same task text
\* again, a task whose description contains "a", the bare description,
\* another task, a heading, an open and a closed annotation
OtherLines ==
    { TaskLine(<< "x" >>, << "a" >>),
      TaskLine(<< " " >>, << "b", "a" >>),
      << "a" >>,
      TaskLine(<< " " >>, << "b" >>),
      HeadingLine,
      Indentation \o OpenToken(FormatTimestamp(0)),
      Indentation \o ClosedToken(FormatTimestamp(0), FormatTimestamp(1)) }

\* not asked yet
NoResult == -2

\* the task index read the document with the task on line `index`
InitLocate ==
    /\ NoBoard
    /\ \E above, below \in SeqsUpTo(OtherLines, 1) :
         probe = [ op          |-> "locate",
                   lines       |-> above \o << TaskLine(<< " " >>, << "a" >>) >>
                                   \o below,
                   description |-> << "a" >>,
                   index       |-> Len(above),
                   startIndex  |-> Len(above),
                   asked       |-> NoResult,
                   result      |-> NoResult ]

\* somebody inserts a line above the task
InsertAbove(line, at) ==
    /\ probe.op = "locate"
    /\ Len(probe.lines) < MaxLines
    /\ at <= probe.index
    /\ probe' = [probe EXCEPT !.lines = Splice(probe.lines, at, line),
                              !.index = probe.index + 1,
                              !.asked = NoResult,
                              !.result = NoResult]
    /\ UNCHANGED boardVars

\* somebody deletes a line above the task
DeleteAbove(at) ==
    /\ probe.op = "locate"
    /\ at < probe.index
    /\ probe' = [probe EXCEPT
                   !.lines = SubSeq(probe.lines, 1, at)
                             \o Suffix(probe.lines, at + 2),
                   !.index = probe.index - 1,
                   !.asked = NoResult,
                   !.result = NoResult]
    /\ UNCHANGED boardVars

\* somebody deletes the line of the task
DeleteTask ==
    /\ probe.op = "locate"
    /\ probe.index >= 0
    /\ probe' = [probe EXCEPT
                   !.lines = SubSeq(probe.lines, 1, probe.index)
                             \o Suffix(probe.lines, probe.index + 2),
                   !.index = -1,
                   !.asked = NoResult,
                   !.result = NoResult]
    /\ UNCHANGED boardVars

\* let currentLine = this.findTaskInLines(lines, task.description,
\* task.lineNumber); if found, task.lineNumber = currentLine
Locate ==
    /\ probe.op = "locate"
    /\ probe.result = NoResult
    /\ \E currentLine \in { findTaskInLines(probe.lines, probe.description,
                                            probe.startIndex) } :
         probe' = [probe EXCEPT
                     !.asked = probe.startIndex,
                     !.result = currentLine,
                     !.startIndex = IF currentLine = -1 THEN probe.startIndex
                                    ELSE currentLine]
    /\ UNCHANGED boardVars

NextLocate ==
    \/ \E line \in OtherLines, at \in 0..MaxLines : InsertAbove(line, at)
    \/ \E at \in 0..MaxLines : DeleteAbove(at)
    \/ DeleteTask
    \/ Locate

SpecLocate == InitLocate /\ [][NextLocate]_vars

\* most branches applied to one document
MaxOps == 2

\* lines that may stand below the task: OtherLines, a line of two open
\* tokens and a line of an open token followed by a closed one
AnnotLines ==
    OtherLines \cup
    { Indentation \o OpenToken(FormatTimestamp(0)) \o << " " >>
          \o OpenToken(FormatTimestamp(1)),
      Indentation \o OpenToken(FormatTimestamp(0)) \o << " " >>
          \o ClosedToken(FormatTimestamp(0), FormatTimestamp(1)) }

\* a document with the task on line `index` and nothing done to it yet;
\* history[k] is the document the k-th branch read
InitAnnot ==
    /\ NoBoard
    /\ \E above \in SeqsUpTo(OtherLines, 1), below \in SeqsUpTo(AnnotLines, 2) :
         probe = [ op      |-> "annotate",
                   initial |-> above \o << TaskLine(<< " " >>, << "a" >>) >>
                               \o below,
                   lines   |-> above \o << TaskLine(<< " " >>, << "a" >>) >>
                               \o below,
                   index   |-> Len(above),
                   log     |-> << >>,
                   history |-> << >> ]

\* the 'start' branch at time t
Open(t) ==
    /\ probe.op = "annotate"
    /\ Len(probe.log) < MaxOps
    /\ probe' = [probe EXCEPT
                   !.lines = ClockStart(probe.lines, probe.index,
                                        FormatTimestamp(t)),
                   !.log = Append(probe.log, [type |-> "start", t |-> t]),
                   !.history = Append(probe.history, probe.lines)]
    /\ UNCHANGED boardVars

\* the 'end' branch at time t
Close(t) ==
    /\ probe.op = "annotate"
    /\ Len(probe.log) < MaxOps
    /\ probe' = [probe EXCEPT
                   !.lines = ClockEnd(probe.lines, probe.index,
                                      FormatTimestamp(t)),
                   !.log = Append(probe.log, [type |-> "end", t |-> t]),
                   !.history = Append(probe.history, probe.lines)]
    /\ UNCHANGED boardVars

NextAnnot ==
    \/ \E t \in 0..MaxTime : Open(t)
    \/ \E t \in 0..MaxTime : Close(t)

SpecAnnot == InitAnnot /\ [][NextAnnot]_vars

(***************************************************************************)
(* The two column lookups applied to one configuration                     *)
(***************************************************************************)

\* most columns of a configuration
MaxColumns == 2

\* what the two text fields of a column of the settings tab may hold
ColumnPool ==
    [ name : { "TODO", "Done", "DONE", "" },
      symbol : { << " " >>, << "x" >>, << "-" >>, << >> } ]

\* the status symbols a record may carry; << >> is a record without one
RecordSymbols ==
    { << " " >>, << "x" >>, << "X" >>, << "-" >>, << "/" >>, << >> }

\* a column list as the settings tab can leave it, nothing looked up yet
InitConfig ==
    /\ NoBoard
    /\ \E columns \in SeqsUpTo(ColumnPool, MaxColumns) :
         probe = [ op      |-> "config",
                   columns |-> columns,
                   stage   |-> "set",
                   symbol  |-> << >>,
                   column  |-> "",
                   back    |-> << >> ]

\* ingestion looks up the column of a record's symbol
MapSymbol(symbol) ==
    /\ probe.op = "config"
    /\ probe.stage = "set"
    /\ probe' = [probe EXCEPT
                   !.stage = "column",
                   !.symbol = symbol,
                   !.column = symbolToColumn(probe.columns,
                                             StatusSymbol(symbol))]
    /\ UNCHANGED boardVars

\* the status rewrite looks up the symbol of that column
MapColumn ==
    /\ probe.op = "config"
    /\ probe.stage = "column"
    /\ probe' = [probe EXCEPT
                   !.stage = "symbol",
                   !.back = columnToSymbol(probe.columns, probe.column)]
    /\ UNCHANGED boardVars

NextConfig ==
    \/ \E symbol \in RecordSymbols : MapSymbol(symbol)
    \/ MapColumn

SpecConfig == InitConfig /\ [][NextConfig]_vars

(***************************************************************************)
(* The status rewrite applied to one document                              *)
(***************************************************************************)

\* what the symbol field of a column of the settings tab may hold: one
\* character, nothing, or more than one character
RewriteSymbols == { << " " >>, << "x" >>, << >>, << "x", "x" >> }

\* lines that hold the marker and the description "a": a task line, a
\* checked one, brackets with nothing or with two characters inside, and a
\* quoted task line with a second checkbox behind the description
RewriteLines ==
    { TaskLine(<< " " >>, << "a" >>),
      TaskLine(<< "x" >>, << "a" >>),
      << "-", " ", "[", "]", " ", "a" >>,
      << "-", " ", "[", "x", "x", "]", " ", "a" >>,
      << ">", " " >> \o TaskLine(<< " " >>, << "a" >>)
          \o << " " >> \o TaskMarker \o << "x", "]" >> }

\* a document with the task on line `index`, and a two-column configuration
InitRewrite ==
    /\ NoBoard
    /\ \E above, below \in SeqsUpTo({ HeadingLine }, 1),
          line \in RewriteLines, s1, s2 \in RewriteSymbols :
         probe = [ op      |-> "rewrite",
                   columns |-> << [name |-> "TODO", symbol |-> s1],
                                  [name |-> "Done", symbol |-> s2] >>,
                   lines   |-> above \o << line >> \o below,
                   index   |-> Len(above),
                   log     |-> << >>,
                   history |-> << >>,
                   wrote   |-> << >> ]

\* the body of the action updateTaskStatus enqueues, from the line after
\* vault.read to its end: history[k] is the document the k-th call read,
\* wrote[k] tells whether it called vault.modify
Rewrite(column) ==
    /\ probe.op = "rewrite"
    /\ Len(probe.log) < MaxOps
    /\ \E currentLine \in { findTaskInLines(probe.lines, << "a" >>,
                                             probe.index) } :
       \E edited \in { IF currentLine = -1 THEN probe.lines
                       ELSE StatusEditWith(probe.columns, probe.lines,
                                           currentLine, column) } :
         probe' = [probe EXCEPT
                     !.lines = edited,
                     !.log = Append(probe.log, column),
                     !.history = Append(probe.history, probe.lines),
                     !.wrote = Append(probe.wrote,
                                      edited # probe.lines)]
    /\ UNCHANGED boardVars

NextRewrite == \E column \in { "TODO", "Done", "Gone" } : Rewrite(column)

SpecRewrite == InitRewrite /\ [][NextRewrite]_vars

(***************************************************************************)
(* One ingestion pass over the records of one document                     *)
(***************************************************************************)

\* most records the task index returns
MaxRecords == 2

\* the k-th record describes the task Letters[k]
Letters == << "a", "b", "c", "d" >>

\* a record by its status symbol, the annotation below its task line and
\* whether the task index reports it as clocked in
Shape(symbol, ann, reported) ==
    [ symbol |-> symbol, ann |-> ann, reported |-> reported ]

Shapes ==
    { Shape(<< " " >>, "none",   FALSE),
      Shape(<< " " >>, "open",   FALSE),
      Shape(<< "x" >>, "none",   FALSE),
      Shape(<< "X" >>, "closed", FALSE),
      Shape(<< "-" >>, "none",   FALSE),
      Shape(<< "/" >>, "open",   FALSE),
      Shape(<< "/" >>, "none",   TRUE),
      Shape(<< "x" >>, "open",   FALSE) }

\* column lists: the default one, one without completion column, one whose
\* clock column has a symbol of its own, one whose Done column is not x
IngestColumns ==
    { DEFAULT_COLUMNS,
      << [name |-> "TODO",    symbol |-> << " " >>],
         [name |-> "Working", symbol |-> << " " >>] >>,
      << [name |-> "TODO",    symbol |-> << " " >>],
         [name |-> "Working", symbol |-> << "/" >>],
         [name |-> "Done",    symbol |-> << "x" >>] >>,
      << [name |-> "TODO",    symbol |-> << " " >>],
         [name |-> "Working", symbol |-> << "/" >>],
         [name |-> "Done",    symbol |-> << "-" >>] >> }

\* the lines of the k-th task
RecordLines(shapes, k) ==
    << TaskLine(shapes[k].symbol, << Letters[k] >>) >>
    \o AnnotationLines(shapes[k].ann)

\* the document from its k-th task on, as the task index read it
RECURSIVE LinesFrom(_, _)
LinesFrom(shapes, k) ==
    IF k > Len(shapes) THEN << >>
    ELSE RecordLines(shapes, k) \o LinesFrom(shapes, k + 1)

\* what getTasks() returns for that document
RecordsOf(shapes) ==
    [ k \in 1..Len(shapes) |->
        [ path        |-> "p",
          lineNumber  |-> Len(LinesFrom(SubSeq(shapes, 1, k - 1), 1)),
          description |-> << Letters[k] >>,
          symbol      |-> shapes[k].symbol,
          isClockedIn |-> shapes[k].reported ] ]

\* the records when a heading line stood above the first task at the time
\* the document was indexed
Shifted(records, by) ==
    [ k \in DOMAIN records |->
        [records[k] EXCEPT !.lineNumber = records[k].lineNumber + by] ]

\* the records, the document with `drift` lines inserted on top since it
\* was indexed (-1: one line deleted there), the settings and window.status; `called` holds the
\* functions that have returned, `source` the state of the task source,
\* `loaded` the state it was in at the last loadTasks, `previous` the task
\* list before that call
InitIngest ==
    /\ NoBoard
    /\ \E shapes \in SeqsUpTo(Shapes, MaxRecords), drift \in -1..1,
          columns \in IngestColumns, show \in BOOLEAN,
          status \in { << >>, << "x" >> } :
         probe = [ op      |-> "ingest",
                   cfg     |-> [ autoClockInOut     |-> TRUE,
                                 clockColumn        |-> "Working",
                                 showCompletedTasks |-> show,
                                 columns            |-> columns ],
                   files   |-> [ path \in Paths |->
                                   IF path = "p"
                                   THEN Join([ i \in 1..drift |-> HeadingLine ]
                                             \o LinesFrom(shapes, 1))
                                   ELSE HeadingLine ],
                   records |-> Shifted(RecordsOf(shapes),
                                       IF drift < 0 THEN -drift ELSE 0),
                   status  |-> status,
                   parsed  |-> << >>,
                   tasks   |-> << >>,
                   called  |-> { },
                   source   |-> "present",
                   loaded   |-> "",
                   previous |-> << >>,
                   notices  |-> << >>,
                   raised   |-> FALSE ]

\* the per-record pass alone
ParseRecords ==
    /\ probe.op = "ingest"
    /\ "parseTasks" \notin probe.called
    /\ probe' = [probe EXCEPT
                   !.parsed = parseTasks(probe.cfg, probe.records,
                                         probe.status),
                   !.called = probe.called \cup { "parseTasks" }]
    /\ UNCHANGED boardVars

\* the whole of loadTasks, once for each state of the task source
LoadTasks ==
    /\ probe.op = "ingest"
    /\ probe.loaded # probe.source
    /\ \E r \in { LoadResult(probe.tasks, probe.cfg, probe.files,
                              probe.source, probe.records, probe.status) } :
         probe' = [probe EXCEPT
                     !.tasks = r.tasks,
                     !.notices = r.notices,
                     !.raised = r.raised,
                     !.previous = probe.tasks,
                     !.loaded = probe.source,
                     !.called = probe.called \cup { "loadTasks" }]
    /\ UNCHANGED boardVars

\* the Tasks plugin is disabled or uninstalled, or starts to fail
SourceChanges(source) ==
    /\ probe.op = "ingest"
    /\ probe.source = "present"
    /\ source # "present"
    /\ probe' = [probe EXCEPT !.source = source]
    /\ UNCHANGED boardVars

NextIngest ==
    \/ ParseRecords
    \/ LoadTasks
    \/ \E source \in TaskSources : SourceChanges(source)

SpecIngest == InitIngest /\ [][NextIngest]_vars

(***************************************************************************)
(* The ids parseTasks gives to the records of two documents                *)
(***************************************************************************)

\* the lines of a document of the id probe
MaxDocLines == 2

DocLines ==
    { TaskLine(<< " " >>, << "a" >>), TaskLine(<< "-" >>, << "b" >>),
      HeadingLine }

Docs == { lines \in SeqsUpTo(DocLines, MaxDocLines) : Len(lines) >= 1 }

\* two documents; the Tasks plugin has indexed them as they are and its
\* records carry no id
InitIds ==
    /\ NoBoard
    /\ \E p, q \in Docs :
         probe = [ op    |-> "ids",
                   files |-> [ path \in Paths |->
                                 IF path = "p" THEN Join(p) ELSE Join(q) ],
                   tasks |-> << >>,
                   done  |-> FALSE ]

\* this.tasks = this.parseTasks(tasksPlugin.getTasks())
ParseIndexed ==
    /\ probe.op = "ids"
    /\ ~probe.done
    /\ probe' = [probe EXCEPT
                   !.tasks = parseTasks(settings, getTasks(probe.files),
                                        WindowStatus),
                   !.done = TRUE]
    /\ UNCHANGED boardVars

NextIds == ParseIndexed

SpecIds == InitIds /\ [][NextIds]_vars

(***************************************************************************)
(* The settings tab: columns renamed and removed, the clock column chosen, *)
(* and the board loaded again                                              *)
(***************************************************************************)

\* the edits of the configuration the model follows
MaxEdits == 2

\* what is typed into the name field of a column
TypedNames == { "Doing", "" }

\* a document with an open or no interval under its first task, a stopped
\* task and a task with a symbol no default column carries
SettingsDocument(ann) ==
    Join(<< TaskLine(<< " " >>, << "a" >>) >> \o AnnotationLines(ann)
         \o << TaskLine(<< "-" >>, << "b" >>),
               TaskLine(<< "/" >>, << "c" >>) >>)

\* the default settings and a board not loaded yet; `loaded` tells whether
\* loadTasks has run since the configuration was edited last
InitSettings ==
    /\ NoBoard
    /\ \E ann \in { "none", "open" } :
         probe = [ op     |-> "settings",
                   cfg    |-> [ autoClockInOut     |-> TRUE,
                                clockColumn        |-> "Working",
                                showCompletedTasks |-> FALSE,
                                columns            |-> DEFAULT_COLUMNS ],
                   files  |-> [ path \in Paths |->
                                  IF path = "p" THEN SettingsDocument(ann)
                                  ELSE HeadingLine ],
                   tasks  |-> << >>,
                   edits  |-> 0,
                   loaded |-> FALSE ]

\* the configuration after an edit
Edited(cfg) ==
    probe' = [probe EXCEPT !.cfg = cfg,
                           !.edits = probe.edits + 1,
                           !.loaded = FALSE]

CanEdit == probe.op = "settings" /\ probe.edits < MaxEdits

\* the name field of column i: col.name = val
RenameColumn(i, val) ==
    /\ CanEdit
    /\ i \in 1..Len(probe.cfg.columns)
    /\ probe.cfg.columns[i].name # val
    /\ Edited([probe.cfg EXCEPT !.columns[i].name = val])
    /\ UNCHANGED boardVars

\* the trash button of column i: columns.splice(index, 1)
RemoveColumn(i) ==
    /\ CanEdit
    /\ i \in 1..Len(probe.cfg.columns)
    /\ Edited([probe.cfg EXCEPT !.columns =
                  SubSeq(probe.cfg.columns, 1, i - 1)
                  \o SubSeq(probe.cfg.columns, i + 1,
                            Len(probe.cfg.columns))])
    /\ UNCHANGED boardVars

\* the drop-down of the clock column, whose options are the column names
SelectClockColumn(value) ==
    /\ CanEdit
    /\ value \in ColumnNames(probe.cfg.columns)
    /\ value # probe.cfg.clockColumn
    /\ Edited([probe.cfg EXCEPT !.clockColumn = value])
    /\ UNCHANGED boardVars

\* a refresh of the view: loadTasks with the configuration as it is
Reload ==
    /\ probe.op = "settings"
    /\ ~probe.loaded
    /\ probe' = [probe EXCEPT
                   !.tasks = loadTasks(probe.cfg, probe.files,
                                       getTasks(probe.files), WindowStatus),
                   !.loaded = TRUE]
    /\ UNCHANGED boardVars

NextSettings ==
    \/ \E i \in 1..Len(DEFAULT_COLUMNS), val \in TypedNames :
           RenameColumn(i, val)
    \/ \E i \in 1..Len(DEFAULT_COLUMNS) : RemoveColumn(i)
    \/ \E value \in ColumnNames(DEFAULT_COLUMNS) \cup TypedNames :
           SelectClockColumn(value)
    \/ Reload

SpecSettings == InitSettings /\ [][NextSettings]_vars

(***************************************************************************)
(* Properties of the queue and of the transition controller                *)
(***************************************************************************)

\* the body of action a is between its start and its end
InBody(a) == acts[a].pc \in { "reading", "writing" }

SamePath(a, b) == acts[a].path = acts[b].path

\* C1: of two actions enqueued on one path, the later one does not start
\* before the earlier one has finished, so at most one action per path is
\* between its start and its end
C1_SerialPerPath ==
    \A a, b \in 1..Len(acts) :
        (a < b /\ SamePath(a, b)) =>
            /\ Started(b) => acts[a].pc = "done"
            /\ ~(InBody(a) /\ InBody(b))

\* the second action was enqueued while the first is inside its read
C1_QueuedBehindRead ==
    \E a, b \in 1..Len(acts) :
        /\ a < b
        /\ SamePath(a, b)
        /\ acts[a].pc = "reading"
        /\ acts[b].pc = "queued"

\* number of interval tokens in a text: each begins with "[c"
CountTokens(s) ==
    Cardinality({ i \in 1..(Len(s) - 1) : s[i] = "[" /\ s[i + 1] = "c" })

\* the 'start' actions on a path whose write has landed
LandedStarts(path) ==
    { a \in 1..Len(acts) :
        /\ acts[a].path = path
        /\ acts[a].kind = "start"
        /\ acts[a].pc = "done"
        /\ acts[a].timestamp # << >> }

\* C2: no lost update: an action about to write still sees in the vault the
\* text it read, so its write replaces nothing but its own input, and every
\* interval token inserted by an earlier action is still in the document
C2_NoLostUpdate ==
    /\ \A a \in 1..Len(acts) :
           acts[a].pc = "writing" => acts[a].content = vault[acts[a].path]
    /\ \A path \in DOMAIN vault :
           CountTokens(vault[path]) >= Cardinality(LandedStarts(path))

\* an action is writing on top of the token its predecessor inserted
C2_WritesOverPredecessor ==
    \E a, b \in 1..Len(acts) :
        /\ acts[b].pred = a
        /\ acts[b].pc = "writing"
        /\ a \in LandedStarts(acts[b].path)
        /\ Includes(acts[b].content, OpenToken(acts[a].timestamp))
        /\ Includes(acts[b].pending, OpenToken(acts[a].timestamp))

\* the transition is one that performs an interval edit
NeedsInterval(m) ==
    /\ settings.autoClockInOut
    /\ (moves[m].source = settings.clockColumn)
           # (moves[m].target = settings.clockColumn)

\* C3: in a transition with an interval edit, the interval edit and the
\* status rewrite are two actions of the same path, and the interval action
\* is done before the status action starts
C3_IntervalBeforeStatus ==
    \A m \in 1..Len(moves) :
        (/\ NeedsInterval(m)
         /\ moves[m].statusAct # 0
         /\ Started(moves[m].statusAct)) =>
            /\ moves[m].clockAct # 0
            /\ moves[m].clockAct # moves[m].statusAct
            /\ SamePath(moves[m].clockAct, moves[m].statusAct)
            /\ acts[moves[m].clockAct].kind \in { "start", "end" }
            /\ acts[moves[m].statusAct].kind = "status"
            /\ acts[moves[m].clockAct].pc = "done"

\* a transition whose interval edit has been written and whose status
\* rewrite is in its body
C3_StatusAfterInterval ==
    \E m \in 1..Len(moves) :
        /\ NeedsInterval(m)
        /\ moves[m].statusAct # 0
        /\ InBody(moves[m].statusAct)
        /\ acts[moves[m].clockAct].timestamp # << >>


\* the line the locator resolves the task to in the given text, or -1
ResolvedLine(files, objects, task) ==
    findTaskInLines(Split(files[objects[task].sourcePath]),
                    objects[task].description, objects[task].lineNumber)

\* the symbol inside the leftmost checkbox of a line, << >> without one
SymbolOf(line) ==
    LET p == FirstCheckbox(line, 1) IN
    IF p = 0 THEN << >> ELSE << line[p + 3] >>

\* the symbol on the line the task is resolved to
ResolvedSymbol(files, objects, task) ==
    SymbolOf(At(Split(files[objects[task].sourcePath]),
                ResolvedLine(files, objects, task)))

\* invocation m of handleTaskMove returns in this step
Completes(m) ==
    /\ m \in 1..Len(moves)
    /\ moves[m].pc # "done"
    /\ moves'[m].pc = "done"

\* C4: when a transition of a task whose line is resolvable completes, the
\* task's column is the target column and the symbol in the checkbox of its
\* line is the symbol of the target column
C4_CompletionSetsColumnAndSymbol ==
    [][ \A m \in 1..Len(moves) :
          (/\ Completes(m)
           /\ moves[m].source # moves[m].target
           /\ ResolvedLine(vault', heap', moves[m].task) # -1) =>
              /\ heap'[moves[m].task].column = moves[m].target
              /\ ResolvedSymbol(vault', heap', moves[m].task)
                     = columnToSymbol(settings.columns, moves[m].target) ]_vars

\* the conditions of steps 1 and 2, written out
LeavesClockColumn(m) ==
    /\ moves[m].source = settings.clockColumn
    /\ moves[m].target # settings.clockColumn

EntersClockColumn(m) ==
    /\ moves[m].target = settings.clockColumn
    /\ moves[m].source # settings.clockColumn

\* the interval actions a transition has issued
IntervalActsOf(m) ==
    IF moves[m].clockAct = 0 THEN { } ELSE { moves[m].clockAct }

\* the step in which invocation m is resumed from the given await
ResumesFrom(m, pc) ==
    /\ m \in 1..Len(moves)
    /\ moves[m].pc = pc
    /\ moves'[m].pc # pc

\* the interval actions issued so far are those of steps 1 and 2
IntervalActsMatch ==
    /\ \A m \in 1..Len(moves) :
         /\ LeavesClockColumn(m) <=>
              \E a \in IntervalActsOf(m) : acts[a].kind = "end"
         /\ EntersClockColumn(m) <=>
              \E a \in IntervalActsOf(m) : acts[a].kind = "start"
    /\ \A a \in 1..Len(acts) :
         acts[a].kind # "status" =>
             \E m \in 1..Len(moves) : a \in IntervalActsOf(m)

\* C5: with auto-interval on, a transition issues an interval close and
\* then clears isClockedIn exactly when it leaves the clock column, issues
\* an interval open and then sets isClockedIn exactly when it enters it,
\* and issues no interval action and leaves isClockedIn alone otherwise
C5_IntervalExactlyOnClockColumn ==
    [][ settings.autoClockInOut =>
          /\ IntervalActsMatch'
          /\ \A m \in 1..Len(moves') :
               LET task == moves'[m].task IN
               /\ ResumesFrom(m, "clockOut") =>
                    LeavesClockColumn(m) /\ ~heap'[task].isClockedIn
               /\ ResumesFrom(m, "clockIn") =>
                    EntersClockColumn(m) /\ heap'[task].isClockedIn
               /\ (/\ m \in 1..Len(moves) => moves[m] # moves'[m]
                   /\ ~ResumesFrom(m, "clockOut")
                   /\ ~ResumesFrom(m, "clockIn")) =>
                    heap'[task].isClockedIn = heap[task].isClockedIn ]_vars

\* a transition out of the clock column has closed an interval in the
\* document and cleared isClockedIn
C5_ClosedOnLeaving ==
    \E m \in 1..Len(moves) :
        /\ settings.autoClockInOut
        /\ LeavesClockColumn(m)
        /\ moves[m].pc \in { "status", "done" }
        /\ Includes(acts[moves[m].clockAct].timestamp, << "1" >>)
        /\ ~heap[moves[m].task].isClockedIn
        /\ Includes(vault[heap[moves[m].task].sourcePath], << "-", "-" >>)

\* the task's state and the documents are what they were before the request
SameColumnRequest(m) ==
    /\ m \in 1..Len(moves')
    /\ moves'[m].source = moves'[m].target

\* C7: a transition request whose source column is its target column changes
\* neither the task object nor any document: not in the step that receives
\* it, and not in any step of an action it has queued
C7_SameColumnIsNoOp ==
    [][ \A m \in 1..Len(moves') :
          SameColumnRequest(m) =>
              /\ m \notin 1..Len(moves) => heap' = heap
              /\ \A a \in 1..Len(acts) :
                   (/\ a \in { moves'[m].clockAct, moves'[m].statusAct }
                    /\ acts'[a] # acts[a]) =>
                       /\ vault' = vault
                       /\ heap' = heap ]_vars


(***************************************************************************)
(* End-to-end sequence                                                     *)
(***************************************************************************)

\* the indexes of the lines that carry the task marker
MarkerLines(lines) ==
    { i \in 0..(Len(lines) - 1) : Includes(At(lines, i), TaskMarker) }

\* the line the task was read from: the documents only ever gain annotation
\* lines, so it is the n-th marker line for the n-th task of the document
SourceLine(lines, task) ==
    LET rank == Cardinality({ u \in 1..task :
                                heap[u].sourcePath = heap[task].sourcePath })
    IN  CHOOSE i \in MarkerLines(lines) :
            Cardinality({ j \in MarkerLines(lines) : j <= i }) = rank

\* the task's own transitions are m1 into the clock column and then m2 from
\* the clock column to Done, and both have returned
EnteredThenDone(task, m1, m2) ==
    /\ m1 < m2
    /\ { m \in 1..Len(moves) : moves[m].task = task } = { m1, m2 }
    /\ settings.autoClockInOut
    /\ EntersClockColumn(m1)
    /\ moves[m2].source = settings.clockColumn
    /\ moves[m2].target = "Done"
    /\ moves[m1].pc = "done"
    /\ moves[m2].pc = "done"

\* the run below the task's line is the single closed token of m1 and m2,
\* and the task's line carries the symbol x
OneClosedInterval(task, m1, m2) ==
    LET lines == Split(vault[heap[task].sourcePath])
        i == SourceLine(lines, task)
    IN  /\ i + 1 < Len(lines)
        /\ At(lines, i + 1) =
               << " ", " ", " ", " ", " ", " " >>
               \o << "[", "c", "l", "o", "c", "k", ":", ":" >>
               \o acts[moves[m1].clockAct].timestamp \o << "-", "-" >>
               \o acts[moves[m2].clockAct].timestamp \o << "]" >>
        /\ i + 2 < Len(lines) => ~IsClockLine(At(lines, i + 2))
        /\ SymbolOf(At(lines, i)) = << "x" >>

\* C6 as stated: for a task with no annotation lines, a transition into the
\* clock column followed by one from the clock column to Done leaves exactly
\* one token below the task, [clock::t0--t1], and the symbol x on its line
C6_EndToEnd_AnyTask ==
    \A task \in 1..Len(heap) : \A m1, m2 \in 1..Len(moves) :
        EnteredThenDone(task, m1, m2) => OneClosedInterval(task, m1, m2)

\* no other line of the task's document contains its description
DescriptionIsUnique(task) ==
    LET lines == Split(vault[heap[task].sourcePath]) IN
    Cardinality({ i \in 0..(Len(lines) - 1) :
                    Includes(At(lines, i), heap[task].description) }) = 1

\* C6: for a task with no annotation lines whose description occurs on no
\* other line of its document, a transition into the clock column followed
\* by one from the clock column to Done leaves exactly one token below the
\* task, [clock::t0--t1], and the symbol x on its line
C6_EndToEnd_UniqueDescription ==
    \A task \in 1..Len(heap) : \A m1, m2 \in 1..Len(moves) :
        (EnteredThenDone(task, m1, m2) /\ DescriptionIsUnique(task)) =>
            OneClosedInterval(task, m1, m2)

\* the sequence has run on a uniquely described task, and the exit was
\* stamped later than the entry
C6_EnteredAndLeft ==
    \E task \in 1..Len(heap) : \E m1, m2 \in 1..Len(moves) :
        /\ EnteredThenDone(task, m1, m2)
        /\ DescriptionIsUnique(task)
        /\ acts[moves[m1].clockAct].timestamp
               # acts[moves[m2].clockAct].timestamp
        /\ OneClosedInterval(task, m1, m2)


(***************************************************************************)
(* Properties of the interval annotator and of the task locator            *)
(***************************************************************************)

\* open at t0 and then close at t1 have been applied, to a task that had no
\* annotation line directly below it
OpenedThenClosed ==
    /\ probe.op = "annotate"
    /\ Len(probe.log) = 2
    /\ probe.log[1].type = "start"
    /\ probe.log[2].type = "end"
    /\ probe.index + 1 < Len(probe.initial) =>
           ~IsClockLine(At(probe.initial, probe.index + 1))

\* the text [clock::t0--t1] behind the six spaces
ClosedLine(t0, t1) ==
    << " ", " ", " ", " ", " ", " ",
       "[", "c", "l", "o", "c", "k", ":", ":" >>
    \o << "1", "-", Digit[t0 + 1], "-", "-", "1", "-", Digit[t1 + 1], "]" >>

\* C8: round trip: on a task with no annotation line directly below,
\* close(open(lines, i, t0), i, t1) leaves a run of exactly one annotation
\* line below the task, holding the one token [clock::t0--t1] and no open
\* token, and leaves every other line as it was
C8_OpenCloseRoundTrip ==
    OpenedThenClosed =>
        LET i == probe.index
            line == At(probe.lines, i + 1)
        IN  /\ Len(probe.lines) = Len(probe.initial) + 1
            /\ line = ClosedLine(probe.log[1].t, probe.log[2].t)
            /\ CountTokens(line) = 1
            /\ ~HasOpenClock(line)
            /\ EndOfRun(probe.lines, i + 1) = i + 2
            /\ SubSeq(probe.lines, 1, i + 1) = SubSeq(probe.initial, 1, i + 1)
            /\ Suffix(probe.lines, i + 3) = Suffix(probe.initial, i + 2)

\* the round trip has run with two different timestamps on a task that has
\* a line below it
C8_RoundTripDone ==
    /\ OpenedThenClosed
    /\ probe.log[1].t # probe.log[2].t
    /\ probe.index + 1 < Len(probe.initial)
    /\ Includes(At(probe.lines, probe.index + 1), << "-", "-" >>)

\* the line at the hint that was asked carries the marker and the
\* description
HintStillMatches ==
    /\ probe.op = "locate"
    /\ probe.result # NoResult
    /\ probe.asked >= 0
    /\ probe.asked < Len(probe.lines)
    /\ Includes(At(probe.lines, probe.asked), << "-", " ", "[" >>)
    /\ Includes(At(probe.lines, probe.asked), probe.description)

\* C9: fast path: when the hint is within bounds and its line contains the
\* marker '- [' and the description, findTaskInLines returns the hint,
\* whatever matches earlier in the document
C9_FastPathReturnsHint ==
    HintStillMatches => probe.result = probe.asked

\* the fast path was taken past an earlier line that matches too
C9_EarlierMatchSkipped ==
    /\ HintStillMatches
    /\ probe.result = probe.asked
    /\ \E i \in 0..(probe.asked - 1) :
         /\ Includes(At(probe.lines, i), << "-", " ", "[" >>)
         /\ Includes(At(probe.lines, i), probe.description)

\* no line but the task's contains the description
NoOtherLineHasDescription ==
    \A i \in 0..(Len(probe.lines) - 1) :
        i # probe.index => ~Includes(At(probe.lines, i), probe.description)

\* C10: re-anchoring: after any insertions and deletions of lines above the
\* task, findTaskInLines asked with the old hint returns the task's new
\* index, provided no other line contains the description
C10_ReanchorsUnderDrift ==
    (/\ probe.op = "locate"
     /\ probe.result # NoResult
     /\ NoOtherLineHasDescription) =>
        probe.result = probe.index

\* the task was found at its new index from a hint that had gone stale
C10_FoundFromStaleHint ==
    /\ probe.op = "locate"
    /\ probe.result # NoResult
    /\ NoOtherLineHasDescription
    /\ probe.asked # probe.index
    /\ probe.result = probe.index


(***************************************************************************)
(* Frame of the two branches of the annotator                              *)
(***************************************************************************)

\* positions of a line at which an interval token starts
TokenStarts(line) ==
    { p \in 1..Len(line) : StartsWithAt(line, p, ClockPrefix) }

\* the token starting at p is open: it is closed by a "]" after a text that
\* is not empty and holds no "--"
IsOpenTokenAt(line, p) ==
    LET c == p + 8
        e == IndexOfChar(line, "]", c)
    IN  /\ e > c
        /\ ~\E k \in c..(e - 2) : line[k] = "-" /\ line[k + 1] = "-"

\* indices of the contiguous annotation run below line i
RunBelow(lines, i) ==
    { j \in (i + 1)..(Len(lines) - 1) :
        \A k \in (i + 1)..j : IsClockLine(At(lines, k)) }

\* the open tokens of that run, as << line index, position >>
OpenTokensBelow(lines, i) ==
    UNION { { << j, p >> : p \in { q \in TokenStarts(At(lines, j)) :
                                     IsOpenTokenAt(At(lines, j), q) } } :
            j \in RunBelow(lines, i) }

\* the last of them in document order
LastToken(tokens) ==
    CHOOSE x \in tokens :
        \A y \in tokens : y[1] < x[1] \/ (y[1] = x[1] /\ y[2] <= x[2])

\* the last branch applied was of the given type
LastBranchIs(type) ==
    /\ probe.op = "annotate"
    /\ Len(probe.log) >= 1
    /\ probe.log[Len(probe.log)].type = type

\* the document the last branch read
Before == probe.history[Len(probe.history)]

\* C11: close rewrites only the last open token of the annotation run below
\* the task: that token gets "--" and the end timestamp in front of its
\* closing bracket, its start text kept, and every other token of the line
\* and every other line of the document is as it was
C11_CloseRewritesLastOpenToken ==
    (LastBranchIs("end") /\ OpenTokensBelow(Before, probe.index) # {}) =>
        LET x == LastToken(OpenTokensBelow(Before, probe.index))
            line == At(Before, x[1])
            e == IndexOfChar(line, "]", x[2])
            t == probe.log[Len(probe.log)].t
        IN  probe.lines =
                [Before EXCEPT ![x[1] + 1] =
                    SubSeq(line, 1, e - 1)
                    \o << "-", "-", "1", "-", Digit[t + 1] >>
                    \o SubSeq(line, e, Len(line))]

\* close has run on a run of several open tokens whose last open token
\* shares its line with another token
C11_ClosedAmongSeveral ==
    /\ LastBranchIs("end")
    /\ Cardinality(OpenTokensBelow(Before, probe.index)) >= 2
    /\ LET x == LastToken(OpenTokensBelow(Before, probe.index))
       IN  /\ Cardinality(TokenStarts(At(Before, x[1]))) >= 2
           /\ x[1] + 1 < Len(Before)
    /\ probe.lines # Before

\* the last two branches were both close, and the first of them rewrote
\* the document
ClosedTwice ==
    /\ LastBranchIs("end")
    /\ Len(probe.log) >= 2
    /\ probe.log[Len(probe.log) - 1].type = "end"
    /\ probe.history[Len(probe.log)] # probe.history[Len(probe.log) - 1]

\* close with no open token below the task leaves the text as it was
CloseWithoutOpenKeepsText ==
    (LastBranchIs("end") /\ OpenTokensBelow(Before, probe.index) = {}) =>
        Join(probe.lines) = Join(Before)

\* C12 as stated: close with no open token in the run leaves the text
\* unchanged, and a close after any close that rewrote the document changes
\* nothing
C12_CloseTwiceChangesNothing ==
    /\ CloseWithoutOpenKeepsText
    /\ ClosedTwice => probe.lines = Before

\* C12: close with no open token in the run leaves the text unchanged, and
\* a close after a close that rewrote the only open token of the run changes
\* nothing
C12_CloseAfterOnlyOpenChangesNothing ==
    /\ CloseWithoutOpenKeepsText
    /\ ( /\ ClosedTwice
         /\ Cardinality(OpenTokensBelow(probe.history[Len(probe.log) - 1],
                                         probe.index)) = 1 )
       => probe.lines = Before

\* close has run twice on a run that held one open token and a closed one
C12_ClosedOnlyOpenTwice ==
    /\ ClosedTwice
    /\ Cardinality(OpenTokensBelow(probe.history[Len(probe.log) - 1],
                                    probe.index)) = 1
    /\ OpenTokensBelow(Before, probe.index) = {}
    /\ Cardinality(RunBelow(Before, probe.index)) = 2

\* the task the last branch read had no annotation line directly below
NothingBelow ==
    probe.index + 1 < Len(Before) => ~IsClockLine(At(Before, probe.index + 1))

\* C13: open on a task line i with no annotation line directly below
\* inserts one line at index i+1 that holds the one open token [clock::t];
\* the document is one line longer and the lines it had keep their content
\* and their order
C13_OpenInsertsOneLine ==
    (LastBranchIs("start") /\ NothingBelow) =>
        LET i == probe.index
            t == probe.log[Len(probe.log)].t
        IN  /\ Len(probe.lines) = Len(Before) + 1
            /\ At(probe.lines, i + 1) =
                   << " ", " ", " ", " ", " ", " ",
                      "[", "c", "l", "o", "c", "k", ":", ":",
                      "1", "-", Digit[t + 1], "]" >>
            /\ SubSeq(probe.lines, 1, i + 1) = SubSeq(Before, 1, i + 1)
            /\ SubSeq(probe.lines, i + 3, Len(probe.lines))
                   = SubSeq(Before, i + 2, Len(Before))

\* open has run on a task that stands between two lines that are not
\* annotations
C13_OpenedBetweenLines ==
    /\ LastBranchIs("start")
    /\ NothingBelow
    /\ probe.index >= 1
    /\ probe.index + 1 < Len(Before)

(***************************************************************************)
(* Properties of the column lookups                                        *)
(***************************************************************************)

\* indices of the columns that carry the symbol asked for
ColumnsOfSymbol ==
    { i \in DOMAIN probe.columns : probe.columns[i].symbol = probe.symbol }

\* both lookups have run on the symbol of some configured column
RoundTripOfConfigured ==
    /\ probe.op = "config"
    /\ probe.stage = "symbol"
    /\ ColumnsOfSymbol # {}

\* C14 as stated: for every symbol s of a configured column,
\* columnToSymbol(symbolToColumn(s)) = s
C14_RoundTrip_AnyConfiguration ==
    RoundTripOfConfigured => probe.back = probe.symbol

\* no two columns of the configuration share a name
DistinctNames ==
    \A i, j \in DOMAIN probe.columns :
        probe.columns[i].name = probe.columns[j].name => i = j

\* C14: in a configuration whose column names are pairwise distinct, for
\* every non-empty symbol s of a configured column,
\* columnToSymbol(symbolToColumn(s)) = s
C14_RoundTrip_DistinctNames ==
    (RoundTripOfConfigured /\ DistinctNames /\ probe.symbol # << >>) =>
        probe.back = probe.symbol

\* the round trip has run on a symbol that is not a space and belongs to
\* the second of two columns with different names
C14_RoundTripOnSecondColumn ==
    /\ RoundTripOfConfigured
    /\ DistinctNames
    /\ probe.symbol \notin { << >>, << " " >> }
    /\ ColumnsOfSymbol = { 2 }
    /\ probe.column = probe.columns[2].name

\* the column of a record's symbol has been looked up
Mapped == probe.op = "config" /\ probe.stage # "set"

\* indices of the columns named done, in any case
DoneColumns ==
    { i \in DOMAIN probe.columns :
        probe.columns[i].name \in { "done", "Done", "DONE" } }

\* the smallest index of a set of indices
First(indices) == CHOOSE i \in indices : \A j \in indices : i <= j

\* the symbol asked for is x or X and no column carries it
UnmappedCompletion ==
    /\ ColumnsOfSymbol = {}
    /\ probe.symbol \in { << "x" >>, << "X" >> }

ComparedSymbol == IF probe.symbol = << >> THEN << " " >> ELSE probe.symbol

\* indices of the columns that carry the compared symbol
ColumnsOfCompared ==
    { i \in DOMAIN probe.columns : probe.columns[i].symbol = ComparedSymbol }

Loaded ==
    /\ probe.op = "ingest"
    /\ "loadTasks" \in probe.called
    /\ probe.loaded = "present"

\* parseTasks has returned
Parsed == probe.op = "ingest" /\ "parseTasks" \in probe.called

\* the lines of the ingested document as it is now
LiveLines == Split(probe.files["p"])

\* the index of the line that holds the task of that description
LineOfTask(description) ==
    CHOOSE i \in 0..(Len(LiveLines) - 1) :
        /\ Len(At(LiveLines, i)) >= 7
        /\ SubSeq(At(LiveLines, i), 1, 3) = << "-", " ", "[" >>
        /\ SubSeq(At(LiveLines, i), 7, Len(At(LiveLines, i))) = description

\* the record a task was made from
RecordOfTask(task) ==
    CHOOSE k \in DOMAIN probe.records :
        probe.records[k].description = task.description

\* the task's document holds an open token in the run below the task's line
HasLiveInterval(task) ==
    OpenTokensBelow(LiveLines, LineOfTask(task.description)) # {}

\* C16: after ingestion every task of the list with an open interval token
\* in the annotation run directly below its line is in the clock column
\* with isClockedIn true, whatever its status symbol maps to
C16_LiveIntervalOverrides ==
    Loaded =>
        \A i \in DOMAIN probe.tasks :
            HasLiveInterval(probe.tasks[i]) =>
                /\ probe.tasks[i].column = probe.cfg.clockColumn
                /\ probe.tasks[i].isClockedIn

\* the symbol of the record a task was made from
SymbolOfTask(task) == probe.records[RecordOfTask(task)].symbol

\* the symbol of the clock column
ClockSymbol ==
    LET named == { i \in DOMAIN probe.cfg.columns :
                     probe.cfg.columns[i].name = probe.cfg.clockColumn }
    IN  probe.cfg.columns[First(named)].symbol

\* C17: ingestion derives the status of each task from its record's symbol:
\* x or X gives done, '/' gives in_progress, '-' gives cancelled, and a
\* symbol that is none of these nor the clock column's symbol gives todo
C17_StatusFromSymbol ==
    Loaded =>
        \A i \in DOMAIN probe.tasks :
            LET s == SymbolOfTask(probe.tasks[i])
                status == probe.tasks[i].status
            IN  /\ s \in { << "x" >>, << "X" >> } => status = "done"
                /\ s = << "/" >> => status = "in_progress"
                /\ s = << "-" >> => status = "cancelled"
                /\ s \notin { << "x" >>, << "X" >>, << "/" >>, << "-" >>,
                              ClockSymbol } => status = "todo"

\* the record a task was made from reports an active interval
ReportedOfTask(task) == probe.records[RecordOfTask(task)].isClockedIn

\* C18 as stated: after the per-record pass isClockedIn is true exactly if
\* the record's symbol is the clock column's symbol or the record reports
\* an active interval
C18_ClockedInBySymbol ==
    Parsed =>
        \A i \in DOMAIN probe.parsed :
            probe.parsed[i].isClockedIn <=>
                \/ SymbolOfTask(probe.parsed[i]) = ClockSymbol
                \/ ReportedOfTask(probe.parsed[i])

\* C18: after the per-record pass isClockedIn is true exactly if the column
\* the record's symbol maps to is the clock column or the record reports an
\* active interval
C18_ClockedInByColumn ==
    Parsed =>
        \A i \in DOMAIN probe.parsed :
            probe.parsed[i].isClockedIn <=>
                \/ probe.parsed[i].column = "Working"
                \/ ReportedOfTask(probe.parsed[i])

\* the per-record pass has made a task of a record that carries the clock
\* column's symbol and maps to another column, one of a record that maps to
\* the clock column, or one of a record that reports an interval
C18_ParsedThreeKinds ==
    /\ Parsed
    /\ Len(probe.parsed) = 2
    /\ SymbolOfTask(probe.parsed[1]) = ClockSymbol
    /\ probe.parsed[1].column = "TODO"
    /\ ~probe.parsed[1].isClockedIn
    /\ ReportedOfTask(probe.parsed[2])
    /\ probe.parsed[2].column # "Working"
    /\ probe.parsed[2].isClockedIn

\* C19: with the show-completed flag off the list ingestion returns holds
\* no task whose status symbol is x or X, in every column configuration;
\* with the flag on it holds a task for every record
C19_CompletedAreFiltered ==
    Loaded =>
        IF probe.cfg.showCompletedTasks
        THEN Len(probe.tasks) = Len(probe.records)
        ELSE \A i \in DOMAIN probe.tasks :
                 SymbolOfTask(probe.tasks[i]) \notin { << "x" >>, << "X" >> }

(***************************************************************************)
(* The flag of a task and the tokens below its line                        *)
(***************************************************************************)

\* no transition and no queued action is in flight
Quiescent ==
    /\ \A a \in 1..Len(acts) : acts[a].pc = "done"
    /\ \A m \in 1..Len(moves) : moves[m].pc = "done"

\* the flag of the task agrees with the document, if its line resolves
FlagAgrees(task) ==
    LET lines == Split(vault[heap[task].sourcePath])
        line == ResolvedLine(vault, heap, task)
    IN  line # -1 =>
            (heap[task].isClockedIn <=> OpenTokensBelow(lines, line) # {})

\* C20: at every quiescent point, for every task of the list whose line
\* the locator resolves, isClockedIn is true exactly if an open interval
\* token stands in the annotation run directly below that line in the
\* current document
C20_FlagMatchesDocument ==
    Quiescent => \A i \in 1..Len(viewTasks) : FlagAgrees(viewTasks[i])


(***************************************************************************)
(* The scan of the locator                                                 *)
(***************************************************************************)

\* indices of the lines that contain the marker and the description
MatchingLines ==
    { i \in 0..(Len(probe.lines) - 1) :
        /\ Includes(At(probe.lines, i), << "-", " ", "[" >>)
        /\ Includes(At(probe.lines, i), probe.description) }

\* findTaskInLines has returned and the fast path did not apply
Scanned ==
    /\ probe.op = "locate"
    /\ probe.result # NoResult
    /\ ~HintStillMatches

\* C28: when the fast path does not apply, findTaskInLines returns the
\* smallest index of a line that contains the marker '- [' and the
\* description, and returns -1 exactly when no line contains both
C28_ScanReturnsFirstMatch ==
    Scanned =>
        IF MatchingLines = {} THEN probe.result = -1
        ELSE /\ probe.result \in MatchingLines
             /\ \A i \in MatchingLines : probe.result <= i

\* the scan returned -1 on a document that holds a line with the
\* description and a line with the marker, but none with both
C28_NotFoundAmongNearMisses ==
    /\ Scanned
    /\ probe.result = -1
    /\ \E i \in 0..(Len(probe.lines) - 1) :
         Includes(At(probe.lines, i), probe.description)
    /\ \E i \in 0..(Len(probe.lines) - 1) :
         Includes(At(probe.lines, i), << "-", " ", "[" >>)


(***************************************************************************)
(* Open on a task that has annotation lines                                *)
(***************************************************************************)

\* the last index of the annotation run below the task the last branch
\* read, the index of the task when there is no run
LastOfRun ==
    LET run == RunBelow(Before, probe.index)
    IN  IF run = {} THEN probe.index
        ELSE CHOOSE r \in run : \A j \in run : j <= r

\* C30 as stated: open on a task with an annotation line directly below
\* appends the token to the last line of the run and leaves the line count
\* as it was; a line is inserted only when there is no annotation line
C30_OpenAppendsToRun ==
    LastBranchIs("start") =>
        IF NothingBelow
        THEN Len(probe.lines) = Len(Before) + 1
        ELSE /\ Len(probe.lines) = Len(Before)
             /\ Len(At(probe.lines, LastOfRun)) > Len(At(Before, LastOfRun))

\* C30: open inserts one new line that holds the new open token directly
\* after the last line of the annotation run below the task, directly
\* after the task line when there is no run; the line count grows by one
\* and no line the document had is changed
C30_OpenInsertsAfterRun ==
    LastBranchIs("start") =>
        LET r == LastOfRun
            t == probe.log[Len(probe.log)].t
        IN  probe.lines =
                SubSeq(Before, 1, r + 1)
                \o << << " ", " ", " ", " ", " ", " ",
                         "[", "c", "l", "o", "c", "k", ":", ":",
                         "1", "-", Digit[t + 1], "]" >> >>
                \o SubSeq(Before, r + 2, Len(Before))

\* open has run on a task with an annotation run below it that is followed
\* by another line
C30_OpenedBelowRun ==
    /\ LastBranchIs("start")
    /\ ~NothingBelow
    /\ LastOfRun > probe.index
    /\ LastOfRun + 1 < Len(Before)
    /\ Len(probe.lines) = Len(Before) + 1


\* the hint of the record a task was made from is not the index of the
\* task's line any more
HintIsStale(task) ==
    probe.records[RecordOfTask(task)].lineNumber
        # LineOfTask(task.description)

\* C29: ingestion resolves the line of each task through the locator before
\* it looks for an open interval: a task whose hint is stale and whose
\* current line has an open token directly below is put in the clock column
\* with isClockedIn true
C29_StaleHintStillOverridden ==
    Loaded =>
        \A i \in DOMAIN probe.tasks :
            (HintIsStale(probe.tasks[i]) /\ HasLiveInterval(probe.tasks[i]))
                => /\ probe.tasks[i].column = probe.cfg.clockColumn
                   /\ probe.tasks[i].isClockedIn


(***************************************************************************)
(* Open intervals per task                                                 *)
(***************************************************************************)

\* indices of the task lines of a document
TaskLinesOf(lines) ==
    { i \in 0..(Len(lines) - 1) :
        /\ Len(At(lines, i)) >= 3
        /\ SubSeq(At(lines, i), 1, 3) = << "-", " ", "[" >> }

\* every task of every document has at most one open token in the
\* annotation run below its line
AtMostOneOpenPerTask ==
    \A path \in DOMAIN vault :
        \A i \in TaskLinesOf(Split(vault[path])) :
            Cardinality(OpenTokensBelow(Split(vault[path]), i)) <= 1

\* C21: starting from documents in which every task has at most one open
\* interval token, after any sequence and interleaving of transitions every
\* task's annotation run still holds at most one open token
C21_AtMostOneOpenInterval == AtMostOneOpenPerTask


(***************************************************************************)
(* Independence of the chains of different paths                           *)
(***************************************************************************)

\* the actions enqueued before a on the path of a
EarlierOnPath(a) ==
    { b \in 1..(a - 1) : acts[b].path = acts[a].path }

\* C24: two actions enqueued on different paths do not wait for each other:
\* an action that has not started and has no unfinished earlier action on
\* its own path is due to start, whatever is in flight on other paths
C24_PathsDoNotWait ==
    \A a \in 1..Len(acts) :
        (/\ acts[a].pc = "queued"
         /\ \A b \in EarlierOnPath(a) : acts[b].pc = "done")
            => Runnable(a)

\* an action on path q has started and completed while an action enqueued
\* before it on path p is still in flight
C24_CompletedWhileOtherInFlight ==
    \E a, b \in 1..Len(acts) :
        /\ a < b
        /\ acts[a].path = "p" /\ acts[b].path = "q"
        /\ acts[a].pc \in { "reading", "writing" }
        /\ acts[b].pc = "done"


(***************************************************************************)
(* Ingestion without a usable task source                                  *)
(***************************************************************************)

\* loadTasks has returned and found no plugin, or a getTasks that throws
LoadedWithoutSource ==
    /\ probe.op = "ingest"
    /\ "loadTasks" \in probe.called
    /\ probe.loaded \in { "absent", "throws" }

\* C26: when the external task source is absent, or its getTasks call
\* throws, ingestion yields an empty task list and surfaces a notice, and
\* no exception escapes loadTasks
C26_NoSourceGivesEmptyListAndNotice ==
    LoadedWithoutSource =>
        /\ probe.tasks = << >>
        /\ Len(probe.notices) >= 1
        /\ ~probe.raised

\* getTasks threw on a board that held tasks from an earlier load
C26_ThrewOnLoadedBoard ==
    /\ LoadedWithoutSource
    /\ probe.loaded = "throws"
    /\ Len(probe.previous) = 2


(***************************************************************************)
(* Properties under failing storage                                        *)
(***************************************************************************)

\* the lines of a document that hold both the task marker and the
\* description of the task of action a
LinesOfTaskOf(a) ==
    LET lines == Split(vault[acts[a].path])
    IN  { i \in 0..(Len(lines) - 1) :
            /\ Includes(At(lines, i), << "-", " ", "[" >>)
            /\ Includes(At(lines, i), heap[acts[a].task].description) }

\* the read of action a returns in this step, a document in which no line
\* is the task's, and the action ends with it
SkippedOnMiss(a) ==
    /\ a \in 1..Len(acts)
    /\ acts[a].pc = "reading"
    /\ acts[a].path \in DOMAIN vault
    /\ LinesOfTaskOf(a) = { }
    /\ acts'[a].pc = "done"
    /\ "error" \notin acts'[a].log

\* C23: identity miss: when no line holds both the marker and the
\* description of the task, a queued mutation (interval edit or symbol
\* rewrite) is skipped, writes nothing to the document, lets no exception
\* escape and logs a warning
C23_MissIsSkippedWithWarning ==
    [][ \A a \in 1..(2 * MaxMoves) :
          SkippedOnMiss(a) =>
              /\ vault' = vault
              /\ "warn" \in acts'[a].log ]_vars


\* action a exists and was chained on an action whose body failed
BehindFailed(a) ==
    /\ Len(acts) >= a
    /\ acts[a].pred # 0
    /\ "error" \in acts[acts[a].pred].log

\* C22: an action that throws is caught: the promise enqueue returned
\* settles as resolved (the failed action counts as done, and whoever
\* awaits it goes on), the stored tail is never a rejected promise, and
\* every action enqueued behind it on the same path still runs
C22_FailedActionDoesNotBlockPath ==
    \A a \in 1..(2 * MaxMoves) :
        BehindFailed(a) ~> (Len(acts) >= a /\ acts[a].pc = "done")

\* an action has run to its end behind an action whose write or read threw
C22_RanBehindFailed ==
    \E a \in 1..Len(acts) :
        /\ BehindFailed(a)
        /\ acts[a].pc = "done"
        /\ acts[a].log = { }

\* C27: queue liveness: every action enqueued on a path eventually starts,
\* given that every action enqueued before it on that path terminates;
\* nothing cancels or drops an enqueued action
C27_EnqueuedEventuallyStarts ==
    \A a \in 1..(2 * MaxMoves) :
        (Len(acts) >= a) ~> (Len(acts) >= a /\ acts[a].pc # "queued")

\* the first action of the second gesture was enqueued behind an action
\* of the first gesture, which was not over yet, and has started
C27_StartedAfterWaiting ==
    /\ Len(moves) >= 2
    /\ moves[1].pc # "done"
    /\ \E a \in { IF moves[2].clockAct # 0 THEN moves[2].clockAct
                   ELSE moves[2].statusAct } :
         /\ a # 0
         /\ acts[a].pred # 0
         /\ acts[a].pc \in { "reading", "writing", "done" }

\* C25: every triggered transition eventually reaches its last step (the
\* re-render), also when the file is gone, the task line is not found or
\* a read or write throws; a failed or skipped interval edit does not keep
\* the status rewrite from being issued and run
C25_TransitionCompletes ==
    \A m \in 1..MaxMoves :
        (Len(moves) >= m) ~>
            (/\ Len(moves) >= m
             /\ moves[m].pc = "done"
             /\ moves[m].statusAct # 0
             /\ acts[moves[m].statusAct].pc = "done")

\* a transition is over whose interval edit failed or was skipped
C25_CompletedAfterFailedEdit ==
    \E m \in 1..Len(moves) :
        /\ moves[m].pc = "done"
        /\ moves[m].clockAct # 0
        /\ acts[moves[m].clockAct].log # { }
        /\ moves[m].statusAct # 0
        /\ acts[moves[m].statusAct].pc = "done"


(***************************************************************************)
(* Opening twice                                                           *)
(***************************************************************************)

\* the last two branches were open, then close
OpenFollowedByClose ==
    /\ LastBranchIs("end")
    /\ Len(probe.log) >= 2
    /\ probe.log[Len(probe.log) - 1].type = "start"

\* the document the branch before the last one read
BeforeBoth == probe.history[Len(probe.history) - 1]

\* C31: open is not idempotent: open on a task whose run already holds an
\* open token leaves one open token more than there were, and a single
\* close that follows closes only the later one: the open tokens that were
\* there before the open are open still, where they were
C31_SecondOpenAddsToken ==
    /\ (LastBranchIs("start") /\ OpenTokensBelow(Before, probe.index) # {})
         => Cardinality(OpenTokensBelow(probe.lines, probe.index))
              = Cardinality(OpenTokensBelow(Before, probe.index)) + 1
    /\ (OpenFollowedByClose /\ OpenTokensBelow(BeforeBoth, probe.index) # {})
         => /\ OpenTokensBelow(probe.lines, probe.index)
                 = OpenTokensBelow(BeforeBoth, probe.index)
            /\ Len(probe.lines) = Len(BeforeBoth) + 1

\* a task with one open token was opened again and then closed once: the
\* earlier token is open, the later one is closed
C31_OpenedTwiceClosedOnce ==
    /\ OpenFollowedByClose
    /\ Cardinality(OpenTokensBelow(BeforeBoth, probe.index)) = 1
    /\ Cardinality(OpenTokensBelow(Before, probe.index)) = 2
    /\ Cardinality(OpenTokensBelow(probe.lines, probe.index)) = 1


(***************************************************************************)
(* The end of the annotation run                                           *)
(***************************************************************************)

\* what the per-record pass alone makes of the records
FirstPass == parseTasks(probe.cfg, probe.records, probe.status)

\* C32 (ingestion): the interval check of ingestion reads no token behind
\* the first line below the task that is not an annotation-only line: a
\* task with no open token in the run below its line is not counted as
\* active by the second pass, which leaves it as the per-record pass made
\* it
C32_SeparatedTokenIsNotCounted ==
    Loaded =>
        \A i \in DOMAIN probe.tasks :
            ~HasLiveInterval(probe.tasks[i]) => probe.tasks[i] = FirstPass[i]


(***************************************************************************)
(* Frame of the status rewrite                                             *)
(***************************************************************************)

\* a rewrite has been applied
Rewritten == probe.op = "rewrite" /\ Len(probe.log) >= 1

\* the document the last rewrite read and the task line in it
ReadByRewrite == probe.history[Len(probe.history)]
LineRead == At(ReadByRewrite, probe.index)

\* positions of LineRead where "- [", one character that is not "]", and
\* "]" stand
Checkboxes ==
    { p \in 1..(Len(LineRead) - 4) :
        /\ SubSeq(LineRead, p, p + 2) = << "-", " ", "[" >>
        /\ LineRead[p + 3] # "]"
        /\ LineRead[p + 4] = "]" }

\* the symbol configured for the column of the last rewrite; a blank when
\* the column is not configured or its symbol is empty
TargetSymbol ==
    LET named == { i \in DOMAIN probe.columns :
                     probe.columns[i].name = probe.log[Len(probe.log)] }
    IN  IF named = {} THEN << " " >>
        ELSE IF probe.columns[First(named)].symbol = << >> THEN << " " >>
        ELSE probe.columns[First(named)].symbol

\* vault.modify was called by the last rewrite
WroteLast == probe.wrote[Len(probe.wrote)]

\* C39: the status rewrite changes at most the one character inside the
\* first checkbox of the located task line, every other character of the
\* line and every other line staying as it was; when the line carries the
\* target symbol already, or holds no checkbox, the document is not written
C39_RewriteChangesOneCharacter ==
    Rewritten =>
        IF Checkboxes = {}
        THEN probe.lines = ReadByRewrite /\ ~WroteLast
        ELSE LET p == First(Checkboxes)
             IN  /\ Len(probe.lines) = Len(ReadByRewrite)
                 /\ \A i \in 0..(Len(probe.lines) - 1) :
                      i # probe.index
                          => At(probe.lines, i) = At(ReadByRewrite, i)
                 /\ Len(At(probe.lines, probe.index)) = Len(LineRead)
                 /\ \A k \in 1..Len(LineRead) :
                      k # p + 3
                          => At(probe.lines, probe.index)[k] = LineRead[k]
                 /\ << LineRead[p + 3] >> = TargetSymbol
                      => probe.lines = ReadByRewrite /\ ~WroteLast


(***************************************************************************)
(* Transitions with auto-interval switched off                             *)
(***************************************************************************)

\* invocation m of handleTaskMove is entered in this step
Enters(m) == m = Len(moves) + 1 /\ Len(moves') = m

\* C33: with auto-interval off, a transition into or out of the clock
\* column issues no interval edit and leaves isClockedIn, startTime and
\* endTime of every task as they were; it sets the task's column to the
\* target and issues the status rewrite for the target column
C33_AutoOffKeepsIntervalState ==
    [][ ~settings.autoClockInOut =>
          /\ \A a \in 1..Len(acts') : acts'[a].kind = "status"
          /\ \A i \in 1..Len(heap) :
               /\ heap'[i].isClockedIn = heap[i].isClockedIn
               /\ heap'[i].startTime = heap[i].startTime
               /\ heap'[i].endTime = heap[i].endTime
          /\ \A m \in 1..Len(moves') :
               Enters(m) =>
                   /\ heap'[moves'[m].task].column = moves'[m].target
                   /\ Len(acts') = Len(acts) + 1
                   /\ moves'[m].statusAct = Len(acts')
                   /\ acts'[Len(acts')].task = moves'[m].task
                   /\ acts'[Len(acts')].column = moves'[m].target ]_vars

\* with auto-interval off, one transition into the clock column and one out
\* of it have completed; the task that left is still flagged as clocked in
\* and its line carries the symbol of the column it went to
C33_MovedInAndOutWithAutoOff ==
    /\ ~settings.autoClockInOut
    /\ \E m, n \in 1..Len(moves) :
         /\ EntersClockColumn(m) /\ moves[m].pc = "done"
         /\ LeavesClockColumn(n) /\ moves[n].pc = "done"
         /\ heap[moves[m].task].column = settings.clockColumn
         /\ heap[moves[n].task].isClockedIn
         /\ ResolvedSymbol(vault, heap, moves[n].task)
                = columnToSymbol(settings.columns, moves[n].target)


(***************************************************************************)
(* Overlapping transitions of one task                                     *)
(***************************************************************************)

\* the invocations of handleTaskMove for the task
MovesOf(task) == { m \in 1..Len(moves) : moves[m].task = task }

\* a later invocation for the same task was entered while an earlier one
\* was awaiting its interval edit: the later one has issued its status
\* rewrite before the earlier one
Overlapped(task) ==
    \E m, n \in MovesOf(task) :
        /\ m < n
        /\ moves[m].clockAct # 0
        /\ moves[n].statusAct # 0
        /\ moves[m].statusAct > moves[n].statusAct

\* C35: when the transitions requested are two or more transitions of one
\* task, in any interleaving, and all of them and all queued actions have
\* completed, the symbol on the task's line, if the line is resolvable, is
\* the symbol of the task's column
C35_SymbolMatchesColumnAfterOverlap ==
    Quiescent =>
        \A task \in 1..Len(heap) :
            (/\ Cardinality(MovesOf(task)) >= 2
             /\ MovesOf(task) = 1..Len(moves)
             /\ ResolvedLine(vault, heap, task) # -1) =>
                ResolvedSymbol(vault, heap, task)
                    = columnToSymbol(settings.columns, heap[task].column)

\* two transitions of one task have overlapped and completed, and the line
\* carries a symbol that the second one to finish has written
C35_OverlappedAndSettled ==
    /\ Quiescent
    /\ \E task \in 1..Len(heap) :
         /\ Overlapped(task)
         /\ ResolvedLine(vault, heap, task) # -1
         /\ heap[task].column = settings.clockColumn


(***************************************************************************)
(* A transition followed by a refresh                                      *)
(***************************************************************************)

\* the column is configured and its symbol is not a completion symbol
NonCompletionColumn(column) ==
    \E i \in 1..Len(settings.columns) :
        /\ settings.columns[i].name = column
        /\ settings.columns[i].symbol \notin { << "x" >>, << "X" >> }

\* what a refresh makes of the documents as they are
Reingested == loadTasks(settings, vault, getTasks(vault), WindowStatus)

\* C36: when a transition of a task to a configured column that is not a
\* completion column is the only one requested and it and its writes are
\* done, a refresh that ingests the documents again puts the task, found on
\* its line, in that column; with auto-interval on or off, the clock column
\* included
C36_RefreshKeepsColumn ==
    (/\ Quiescent
     /\ Len(moves) = 1
     /\ probe.left = MaxRefreshes) =>
        LET task == moves[1].task
            line == ResolvedLine(vault, heap, task)
        IN  (NonCompletionColumn(moves[1].target) /\ line # -1) =>
                \E i \in 1..Len(Reingested) :
                    /\ Reingested[i].sourcePath = heap[task].sourcePath
                    /\ Reingested[i].lineNumber = line
                    /\ Reingested[i].column = moves[1].target


(***************************************************************************)
(* A refresh under a transition in flight                                  *)
(***************************************************************************)

\* the objects of this.tasks
ViewObjects(list) == { list[j] : j \in 1..Len(list) }

\* the object invocation m works on is no longer in this.tasks: a refresh
\* has replaced the list since the invocation was entered
ReplacedUnder(m) == moves[m].task \notin ViewObjects(viewTasks)

\* C34: when a refresh has replaced the task list while a transition of a
\* task was in flight, then at the completion of the transition the task of
\* the current list that has the same id is in the target column
C34_RefreshedTaskHasTargetColumn ==
    [][ \A m \in 1..Len(moves) :
          (Completes(m) /\ ReplacedUnder(m)) =>
              \A t \in ViewObjects(viewTasks') :
                  heap'[t].id = heap'[moves[m].task].id
                      => heap'[t].column = moves[m].target ]_vars


(***************************************************************************)
(* Distinct ids                                                            *)
(***************************************************************************)

\* C37: the tasks parseTasks returns for records without an id that differ
\* in source path or line number have ids that differ pairwise
C37_IdsAreDistinct ==
    (probe.op = "ids" /\ probe.done) =>
        \A i, j \in 1..Len(probe.tasks) :
            i # j => probe.tasks[i].id # probe.tasks[j].id


(***************************************************************************)
(* Every task is in a configured column                                    *)
(***************************************************************************)

\* C38: after an ingestion, whatever renames, removals and selections of
\* the clock column came before it, the column of every task of the list is
\* the name of a column of the configuration
C38_ColumnsAreConfigured ==
    (probe.op = "settings" /\ probe.loaded) =>
        \A i \in 1..Len(probe.tasks) :
            probe.tasks[i].column \in ColumnNames(probe.cfg.columns)

====
